---- MODULE Spec2Model ----
(***************************************************************************)
(* Model of the conversation orchestrator (ChatEngine), its sliding-window *)
(* admission control and the tool gateway (McpClientManager) it calls.     *)
(* Times are milliseconds, as returned by Date.now().                      *)
(*   Spec         the engine: sendMessage and generateFollowUps            *)
(*   SpecHistory  the engine and the host's calls on its history           *)
(*   SpecGateway  connect(), disconnect() and callTool of the gateway      *)
(*   SpecAdapter  the chunk loop of the Groq, Mistral and Gemini streamChat*)
(*   SpecHostCalls  the engine paced per minute, the host's queries on its *)
(*                ledger and the renderer's cancellation                   *)
(*   SpecWait     the admission wait with its timers, under fairness       *)
(*   SpecConvert  convertHistory of the adapters on the engine's histories *)
(*   SpecOllama   streamChat of the Ollama adapter and its timeouts        *)
(*   SpecMain     main's send-message, switch-provider, load-chat and      *)
(*                clear-chat handlers around one engine                    *)
(*   SpecReconnect  main's reconnect-mcp between requests                  *)
(*   SpecRenderer the renderer's streaming state, under fairness           *)
(***************************************************************************)
EXTENDS Integers, Sequences, FiniteSets, TLC

\* ---------------------------------------------------------------- bounds
\* The clock starts at StartMs and is observed every TickMs up to ClockEnd;
\* a pending timer moves it further.  At most MaxOps engine operations are
\* started, and a sendMessage only on a history of at most MaxHistory messages.
StartMs == 1000
TickMs == 500
ClockEnd == 2000
MaxOps == 2
MaxHistory == 2
\* at most MaxHostCalls calls of clearHistory / restoreHistory by the host
MaxHostCalls == 2
\* a vendor stream delivers at most MaxChunks chunks
MaxChunks == 3
\* the host calls disconnect() at most MaxDisconnects times and callTool at
\* most MaxToolCalls times on one gateway
MaxDisconnects == 1
MaxToolCalls == 1
\* the renderer invokes send-message at most MaxRequests times
MaxRequests == 2

\* ------------------------------------------------------ program constants
ElevenRounds == 10 + 1
MaxRounds == 10
MinSleepMs == 500
MarginMs == 200
EmptyWaitMs == 2000
RetryAttempts == 3
BackoffStepMs == 5000
RecentCount == 4
TurnChars == 500
SuggestionCount == 3
FirstTokenTimeoutMs == 180000
IdleTimeoutMs == 60000

NoId == "undefined"

Max(a, b) == IF a >= b THEN a ELSE b

\* ------------------------------------------------------------- providers
\* ProviderInfo values; a model without an rpm override has hasRpm = FALSE.
\* The window is one second, so that it spans a few observations of the clock.
ProviderTiny ==
    [id |-> "tiny",
     models |-> <<[id |-> "tiny-1", hasRpm |-> FALSE, rpm |-> 0]>>,
     defaultModel |-> "tiny-1",
     rateLimit |-> [rpm |-> 1, windowMs |-> 1000]]

ProviderFree ==
    [id |-> "free",
     models |-> <<[id |-> "flash", hasRpm |-> TRUE, rpm |-> 2],
                  [id |-> "pro", hasRpm |-> FALSE, rpm |-> 0]>>,
     defaultModel |-> "flash",
     rateLimit |-> [rpm |-> 3, windowMs |-> 1000]]

ProviderLocal ==
    [id |-> "local",
     models |-> <<[id |-> "llama", hasRpm |-> FALSE, rpm |-> 0]>>,
     defaultModel |-> "llama",
     rateLimit |-> [rpm |-> 9999, windowMs |-> 1000]]

\* (provider, modelId) pairs an engine is constructed with
EngineConfigs ==
    { <<ProviderTiny, "tiny-1">>, <<ProviderFree, "flash">>,
      <<ProviderFree, "pro">>, <<ProviderLocal, "llama">> }

\* ------------------------------------------------------ admission control
\* models.find(m => m.id === modelId)
RECURSIVE FindModel(_, _)
FindModel(models, id) ==
    IF models = <<>> THEN [found |-> FALSE, hasRpm |-> FALSE, rpm |-> 0]
    ELSE IF Head(models).id = id
         THEN [found |-> TRUE, hasRpm |-> Head(models).hasRpm, rpm |-> Head(models).rpm]
         ELSE FindModel(Tail(models), id)

RpmIgnoringOverride(prov, id) == prov.rateLimit.rpm
getEffectiveRpm(prov, id) ==
    LET model == FindModel(prov.models, id)
    IN  IF model.found /\ model.hasRpm THEN model.rpm ELSE prov.rateLimit.rpm

\* requestTimestamps.filter(t => t > cutoff)
RECURSIVE FilterAfter(_, _)
FilterAfter(ledger, cutoff) ==
    IF ledger = <<>> THEN <<>>
    ELSE IF Head(ledger) > cutoff
         THEN <<Head(ledger)>> \o FilterAfter(Tail(ledger), cutoff)
         ELSE FilterAfter(Tail(ledger), cutoff)

Prune(ledger, t, windowMs) == FilterAfter(ledger, t - windowMs)

\* the ledger after recordRequest() at time t
Recorded(ledger, t, windowMs) == Prune(Append(ledger, t), t, windowMs)

\* Math.max(1, rpm - 1)
LimitWithoutMargin(rpm) == Max(1, rpm)
effectiveLimit(rpm) == Max(1, rpm - 1)

\* the delay computed in waitForCapacity from the pruned ledger
WaitFixed(pruned, windowMs, t) == EmptyWaitMs
waitMs(pruned, windowMs, t) ==
    LET oldest == IF pruned = <<>> THEN 0 ELSE pruned[1]
    IN  IF oldest # 0 THEN Max(MinSleepMs, oldest + windowMs - t + MarginMs)
        ELSE EmptyWaitMs

\* ---------------------------------------------------------- tool gateway
\* SEFARIA_SERVERS, and what each remote server advertises when it connects
ServerNames == <<"sefaria-texts", "sefaria-developers">>
HasToolsCapability(server) == server = "sefaria-texts"
AdvertisedTools(server) == IF server = "sefaria-texts" THEN <<"search">> ELSE <<>>

\* the catalog and routing table left by connect() when the servers in
\* live connected (in configuration order)
RECURSIVE CatalogOf(_, _)
CatalogOf(servers, live) ==
    IF servers = <<>> THEN <<>>
    ELSE LET s == Head(servers)
             mine == IF s \in live /\ HasToolsCapability(s)
                     THEN [i \in 1..Len(AdvertisedTools(s)) |->
                             [name |-> AdvertisedTools(s)[i], serverName |-> s]]
                     ELSE <<>>
         IN  mine \o CatalogOf(Tail(servers), live)

Servers == {ServerNames[i] : i \in 1..Len(ServerNames)}

\* what the two servers advertise unless stated otherwise
DefaultRemote ==
    [s \in Servers |-> [hasTools |-> HasToolsCapability(s), tools |-> AdvertisedTools(s)]]

\* the message of the error thrown when neither transport connected, and of
\* the error of a failed listTools()
BothFailed == "Both transports failed"
ListFailed == "Connection closed"

\* the sets of servers connect() may leave connected that the engine is run with
ConnectOutcomes == { {}, {ServerNames[i] : i \in 1..Len(ServerNames)} }

RoutingOf(catalog) ==
    [n \in {catalog[i].name : i \in 1..Len(catalog)} |->
        LET last == CHOOSE i \in 1..Len(catalog) :
                        /\ catalog[i].name = n
                        /\ \A j \in 1..Len(catalog) : catalog[j].name = n => j <= i
        IN  catalog[last].serverName]

\* what the remote server answers to client.callTool({name, arguments}): it
\* rejects the arguments "bad", answers "str" with a string and anything else
\* with an object
RemoteCall(server, name, args) ==
    IF args = "bad" THEN [state |-> "rejected", message |-> "remote failure", value |-> "", isString |-> FALSE]
    ELSE IF args = "str" THEN [state |-> "resolved", message |-> "", value |-> "text result", isString |-> TRUE]
    ELSE [state |-> "resolved", message |-> "", value |-> "content", isString |-> FALSE]

\* McpClientManager.callTool: the promise it returns
CallWithoutClientCheck(routing, live, name, args) ==
    IF name \notin DOMAIN routing
    THEN [state |-> "rejected", message |-> "Unknown tool: " \o name, value |-> "", isString |-> FALSE]
    ELSE RemoteCall(routing[name], name, args)
callTool(routing, live, name, args) ==
    IF name \notin DOMAIN routing
    THEN [state |-> "rejected", message |-> "Unknown tool: " \o name, value |-> "", isString |-> FALSE]
    ELSE IF routing[name] \notin live
    THEN [state |-> "rejected", message |-> "Server not connected: " \o routing[name], value |-> "", isString |-> FALSE]
    ELSE RemoteCall(routing[name], name, args)

\* ------------------------------------------------------ canonical messages
TextPart(t) == [kind |-> "text", text |-> t]
FunctionCallPart(fc) == [kind |-> "functionCall", name |-> fc.name, args |-> fc.args, id |-> fc.id]

UserTextMessage(t) == [role |-> "user", parts |-> <<TextPart(t)>>]
\* { role: 'model', parts: [{ text: result.text || '' }] }
FinalAsUserTurn(res) == [role |-> "user", parts |-> <<TextPart(res.text)>>]
FinalMessage(res) == [role |-> "model", parts |-> <<TextPart(res.text)>>]

\* modelParts: the text part (if any) then one functionCall part per call
CallsBeforeText(res) ==
    [i \in 1..Len(res.functionCalls) |-> FunctionCallPart(res.functionCalls[i])]
        \o (IF res.text # "" THEN <<TextPart(res.text)>> ELSE <<>>)
ModelParts(res) ==
    (IF res.text # "" THEN <<TextPart(res.text)>> ELSE <<>>)
        \o [i \in 1..Len(res.functionCalls) |-> FunctionCallPart(res.functionCalls[i])]

\* the functionResponse part produced for call fc once callTool settled;
\* the error text is kept as its pieces: prefix, tool name, ": ", message
ErrorWithoutName(fc, message) == <<"Error invoking tool: ", message>>
ErrorText(fc, message) == <<"Error invoking tool ", fc.name, ": ", message>>

ResponseLosingCallId(fc, settled) ==
    IF settled.state = "resolved"
    THEN [kind |-> "functionResponse", name |-> fc.name, callId |-> fc.id,
          response |-> [isError |-> FALSE, error |-> <<>>, wrapped |-> settled.isString,
                        value |-> settled.value]]
    ELSE [kind |-> "functionResponse", name |-> fc.name, callId |-> NoId,
          response |-> [isError |-> TRUE, error |-> ErrorText(fc, settled.message),
                        wrapped |-> FALSE, value |-> ""]]
ResponsePart(fc, settled) ==
    IF settled.state = "resolved"
    THEN [kind |-> "functionResponse", name |-> fc.name, callId |-> fc.id,
          response |-> [isError |-> FALSE, error |-> <<>>, wrapped |-> settled.isString,
                        value |-> settled.value]]
    ELSE [kind |-> "functionResponse", name |-> fc.name, callId |-> fc.id,
          response |-> [isError |-> TRUE,
                        error |-> ErrorText(fc, settled.message),
                        wrapped |-> FALSE, value |-> ""]]

\* { role: 'user', parts: responseParts }
ResponsesAsModelTurn(parts) == [role |-> "model", parts |-> parts]
ToolResponseMessage(parts) == [role |-> "user", parts |-> parts]

\* ------------------------------------------------- the model behind streamChat
FcLookup == [name |-> "lookup", args |-> "Genesis 1:1", id |-> "call_1"]
FcSearch == [name |-> "search", args |-> "obj", id |-> "call_2"]
FcSearchStr == [name |-> "search", args |-> "str", id |-> NoId]
FcSearchBad == [name |-> "search", args |-> "bad", id |-> "call_4"]

\* A reply policy: the model asks for calls in its first toolRounds replies
\* and answers with the text final afterwards.
Policies ==
    { [toolRounds |-> 0, text |-> "", calls |-> <<>>, final |-> "hi"],
      [toolRounds |-> 1, text |-> "", calls |-> <<FcLookup>>, final |-> ""],
      [toolRounds |-> 2, text |-> "let me look", calls |-> <<FcSearch, FcSearchBad, FcSearchStr>>, final |-> "done"],
      [toolRounds |-> MaxRounds - 1, text |-> "", calls |-> <<FcSearchBad>>, final |-> "done"],
      [toolRounds |-> 1000, text |-> "more", calls |-> <<FcLookup>>, final |-> "never"] }

\* the StreamResult of the reply to the n-th streamChat call (n from 0)
Reply(p, n) ==
    IF n < p.toolRounds THEN [text |-> p.text, functionCalls |-> p.calls]
    ELSE [text |-> p.final, functionCalls |-> <<>>]

AlwaysCalls(p) == p.toolRounds > MaxRounds + 1

\* errors streamChat / generateOnce can throw
ProviderErrors ==
    { [status |-> 429, message |-> "rate limited"],
      [status |-> 0, message |-> "fetch failed"] }
NoError == [status |-> 0, message |-> ""]

\* ------------------------------------------------------------------ state
VARIABLES
    provider, modelId,          \* ChatEngine.provider, ChatEngine.modelId
    conversationHistory,        \* ChatEngine.conversationHistory
    requestTimestamps,          \* ChatEngine.requestTimestamps
    now,                        \* Date.now()
    pc,                         \* where the engine's one task is suspended
    round,                      \* the loop variable of sendMessage
    policy,                     \* the model answering this sendMessage
    result,                     \* result of the last streamChat
    callIdx,                    \* index in result.functionCalls of the call in flight
    inflight,                   \* the promise returned by callTool for that call
    responseParts,              \* responseParts of the round
    wakeAt,                     \* due time of the pending setTimeout
    events,                     \* callbacks and calls made by this sendMessage, in order
    streamCalls,                \* streamChat invocations of this sendMessage
    outcome,                    \* how the last sendMessage settled
    thrown, providerError,      \* what sendMessage rejected with; what the provider threw
    clients, toolToServer, tools,  \* McpClientManager state
    ops,                        \* sendMessage and generateFollowUps invocations so far
    histAtSend, histAtRound,    \* history when sendMessage was called / the round began
    attempt,                    \* the loop variable of generateFollowUps
    prompt,                     \* the turns summarised in its prompt
    followUps,                  \* what the last generateFollowUps resolved to
    genCalls,                   \* generateOnce invocations of the last generateFollowUps
    fuOutcome,                  \* how the last generateFollowUps settled
    genLog,                     \* its generateOnce invocations and their outcomes, in order
    connectionErrors,           \* McpClientManager.connectionErrors
    connectPc,                  \* per server, where its callback in connect() is suspended
    connectPromise,             \* the promise returned by connect()
    disconnectPc, visited,      \* disconnect(): its position; the clients its loop visited, in order
    remote,                     \* per server, the capabilities and tools it advertises
    gatewayLog,                 \* calls on the gateway, calls the servers received, errors recorded
    toolResult,                 \* the promise returned by the last callTool of the host
    adapter, stream,            \* the adapter running streamChat; vendor chunks still to come
    streamText, forwarded,      \* text accumulated so far; the onTextChunk arguments so far
    consumed,                   \* the chunks taken from the stream so far
    assembled,                  \* the tool calls assembled so far (toolCallsMap / functionCalls)
    adapterPc,                  \* where the adapter's streamChat is
    hostView,                   \* what the host last did to the history, and what it got
    hostQuery,                  \* the last answer of hasCapacityForFollowUps / getUsageStats
    signal,                     \* the cancellation the renderer last asked for
    returned,                   \* the functionCalls streamChat of the adapter returned
    wire,                       \* the vendor messages convertHistory last produced
    receivedFirstToken,         \* Ollama streamChat: a content chunk was received
    idleTimer,                  \* Ollama streamChat: the pending setTimeout, if armed
    aborted,                    \* Ollama streamChat: abortController.signal.aborted
    adapterError,               \* what streamChat of the adapter threw
    chatEngine,                 \* main.ts: whether chatEngine holds an engine
    adapterModel,               \* the model the provider adapter sends its requests with
    currentChatId,              \* main.ts: currentChatId
    chatFiles,                  \* the history stored in each saved chat file
    mcpManager,                 \* main.ts: the gateway mcpManager holds, once it is another than the engine's
    isStreaming,                \* renderer: isStreaming
    requests,                   \* the send-message requests of the renderer and how far main handled each
    ipc                         \* what main sent to the renderer and the renderer has not handled yet

vars == <<provider, modelId, conversationHistory, requestTimestamps, now, pc,
          round, policy, result, callIdx, inflight, responseParts, wakeAt,
          events, streamCalls, outcome, thrown, providerError,
          clients, toolToServer, tools, ops, histAtSend, histAtRound,
          attempt, prompt, followUps, genCalls, fuOutcome, genLog,
          connectionErrors, connectPc, connectPromise, disconnectPc, visited,
          remote, gatewayLog, toolResult,
          adapter, stream, streamText, forwarded, consumed, assembled, adapterPc,
          hostView, hostQuery, signal,
          returned, wire, receivedFirstToken, idleTimer, aborted, adapterError,
          chatEngine, adapterModel, currentChatId, chatFiles, mcpManager,
          isStreaming, requests, ipc>>

followUpVars == <<attempt, prompt, followUps, genCalls, fuOutcome, genLog>>

gatewayVars == <<clients, toolToServer, tools, connectionErrors, connectPc,
                 connectPromise, disconnectPc, visited, remote, gatewayLog, toolResult>>

timerVars == <<receivedFirstToken, idleTimer, aborted>>

vendorVars == <<returned, wire, timerVars, adapterError>>

adapterVars == <<adapter, stream, streamText, forwarded, consumed, assembled, adapterPc,
                 vendorVars>>

rendererVars == <<isStreaming, requests, ipc>>

mainVars == <<chatEngine, adapterModel, currentChatId, chatFiles, mcpManager, rendererVars>>

queryVars == <<hostQuery, signal, mainVars>>

hostVars == <<hostView, queryVars>>

engineVars == <<provider, modelId, conversationHistory, requestTimestamps, now, pc,
                round, policy, result, callIdx, inflight, responseParts, wakeAt,
                events, streamCalls, outcome, thrown, providerError, ops,
                histAtSend, histAtRound, followUpVars>>

NoResult == [text |-> "", functionCalls |-> <<>>]
NoPromise == [state |-> "none", message |-> "", value |-> "", isString |-> FALSE]
NoPolicy == [toolRounds |-> 0, text |-> "", calls |-> <<>>, final |-> ""]

\* one entry of the log: a streamChat or callTool invocation, a callTool
\* settlement, or an onToolStatus(name, status) callback
Event(type, name, status, r, i) ==
    [type |-> type, name |-> name, status |-> status, round |-> r, idx |-> i]

\* the fields of a ChatEngine after construction, and its task not started
FreshEngine ==
    /\ conversationHistory = <<>>
    /\ requestTimestamps = <<>>
    /\ now = StartMs
    /\ pc = "idle"
    /\ round = 0
    /\ policy = NoPolicy
    /\ result = NoResult
    /\ callIdx = 0
    /\ inflight = NoPromise
    /\ responseParts = <<>>
    /\ wakeAt = 0
    /\ events = <<>>
    /\ streamCalls = 0
    /\ outcome = "none"
    /\ thrown = NoError
    /\ providerError = NoError
    /\ ops = 0
    /\ histAtSend = <<>>
    /\ histAtRound = <<>>
    /\ attempt = 0
    /\ prompt = <<>>
    /\ followUps = <<>>
    /\ genCalls = 0
    /\ fuOutcome = "none"
    /\ genLog = <<>>

\* no streamChat of an adapter is under way
NoTimer == [armed |-> FALSE, due |-> 0]
NoWire == [vendor |-> "none", op |-> 0, call |-> 0, messages |-> <<>>]

\* nothing was returned, converted or thrown, and no timer is armed
NoVendor ==
    /\ returned = <<>>
    /\ wire = NoWire
    /\ receivedFirstToken = FALSE
    /\ idleTimer = NoTimer
    /\ aborted = FALSE
    /\ adapterError = "none"

NoAdapter ==
    /\ NoVendor
    /\ adapter = "none"
    /\ stream = <<>>
    /\ streamText = ""
    /\ forwarded = <<>>
    /\ consumed = <<>>
    /\ assembled = <<>>
    /\ adapterPc = "idle"

\* gatewayLog keeps, per server, the transport attempts, listings, closes,
\* calls received and errors recorded for it, and under "host" the calls the
\* host made on the gateway
LogEntry(type, server, detail, args, ok) ==
    [type |-> type, server |-> server, detail |-> detail, args |-> args, ok |-> ok]
NoLog == [k \in Servers \cup {"host"} |-> <<>>]
LogTo(log, key, entry) == [log EXCEPT ![key] = Append(@, entry)]
Logged(key, type) == {j \in 1..Len(gatewayLog[key]) : gatewayLog[key][j].type = type}

\* the log of a connect() that left the servers in live connected, each at
\* the first attempt
SettledLog(live) ==
    [k \in Servers \cup {"host"} |->
        IF k \in live
        THEN <<LogEntry("transport", k, "streamable", "", TRUE)>>
             \o (IF HasToolsCapability(k) THEN <<LogEntry("listTools", k, "", "", TRUE)>>
                 ELSE <<>>)
        ELSE IF k \in Servers
        THEN <<LogEntry("transport", k, "streamable", "", FALSE),
               LogEntry("transport", k, "sse", "", FALSE),
               LogEntry("error", k, BothFailed, "", FALSE)>>
        ELSE <<>>]

\* the gateway after a connect() that left the servers in live connected
Connected(live) ==
    /\ clients = live
    /\ tools = CatalogOf(ServerNames, live)
    /\ toolToServer = RoutingOf(CatalogOf(ServerNames, live))
    /\ connectionErrors = [s \in Servers \ live |-> BothFailed]
    /\ connectPc = [s \in Servers |-> "done"]
    /\ connectPromise = "resolved"
    /\ disconnectPc = "idle"
    /\ visited = <<>>
    /\ remote = DefaultRemote
    /\ gatewayLog = SettledLog(live)
    /\ toolResult = NoPromise

\* the host has not touched the history yet
NoView == [op |-> "none", calls |-> 0, before |-> <<>>, after |-> <<>>,
           ledgerBefore |-> <<>>, ledgerAfter |-> <<>>]

\* no query was answered and no cancellation asked for
NoQuery == [op |-> "none", used |-> 0, limit |-> 0, resetsInSeconds |-> 0, answer |-> FALSE]
NoSignal == [fired |-> FALSE, op |-> 0, call |-> 0]

\* main's mcpManager is the gateway the engine holds
SameManager ==
    [state |-> "same", clients |-> {}, tools |-> <<>>, toolToServer |-> <<>>, since |-> 0]

\* the engine stands alone: no chat is open or stored, the renderer is idle
NoMain ==
    /\ chatEngine = TRUE
    /\ adapterModel = NoId
    /\ currentChatId = "null"
    /\ chatFiles = <<>>
    /\ mcpManager = SameManager
    /\ isStreaming = FALSE
    /\ requests = <<>>
    /\ ipc = <<>>

NoHost ==
    /\ hostView = NoView
    /\ hostQuery = NoQuery
    /\ signal = NoSignal
    /\ NoMain

Init ==
    /\ \E cfg \in EngineConfigs : provider = cfg[1] /\ modelId = cfg[2]
    /\ \E live \in ConnectOutcomes : Connected(live)
    /\ FreshEngine
    /\ NoAdapter
    /\ NoHost

\* ------------------------------------------------------------ the clock
\* time passes while the task is suspended or between two requests
Tick ==
    /\ now + TickMs <= ClockEnd
    /\ now' = now + TickMs
    /\ UNCHANGED <<provider, modelId, conversationHistory, requestTimestamps, pc,
                   round, policy, result, callIdx, inflight, responseParts, wakeAt,
                   events, streamCalls, outcome, thrown, providerError,
                   gatewayVars, adapterVars, hostVars, ops, histAtSend, histAtRound,
                   followUpVars>>

\* nothing else is runnable until the pending setTimeout is due
AdvanceToTimer ==
    /\ pc \in {"sleep", "fuSleep", "backoff"}
    /\ now < wakeAt
    /\ now' = wakeAt
    /\ UNCHANGED <<provider, modelId, conversationHistory, requestTimestamps, pc,
                   round, policy, result, callIdx, inflight, responseParts, wakeAt,
                   events, streamCalls, outcome, thrown, providerError,
                   gatewayVars, adapterVars, hostVars, ops, histAtSend, histAtRound,
                   followUpVars>>

\* ---------------------------------------------------------- sendMessage
\* currentUsage() < effectiveLimit, after the pruning currentUsage() does
CapacityUpToLimit ==
    Len(Prune(requestTimestamps, now, provider.rateLimit.windowMs))
        <= effectiveLimit(getEffectiveRpm(provider, modelId))
HasCapacity ==
    Len(Prune(requestTimestamps, now, provider.rateLimit.windowMs))
        < effectiveLimit(getEffectiveRpm(provider, modelId))

\* one pass of the loop of waitForCapacity: prune, then either return (the
\* caller goes on to goPc) or arm the timer and suspend at sleepPc
waitForCapacity(goPc, sleepPc) ==
    LET windowMs == provider.rateLimit.windowMs
        pruned == Prune(requestTimestamps, now, windowMs)
    IN  /\ requestTimestamps' = pruned
        /\ IF HasCapacity
           THEN pc' = goPc /\ wakeAt' = wakeAt
           ELSE pc' = sleepPc /\ wakeAt' = now + waitMs(pruned, windowMs, now)

\* top of the for loop for round r: waitForCapacity(), then streamChat is
\* invoked if capacity was granted
EnterRound(r, ev, sc) ==
    /\ waitForCapacity("stream", "sleep")
    /\ streamCalls' = IF HasCapacity THEN sc + 1 ELSE sc
    /\ events' = IF HasCapacity THEN Append(ev, Event("streamChat", "", "", r, 0)) ELSE ev

\* onToolStatus(fc.name, 'calling') and the invocation of callTool for
\* call i of the round
InvokeAll(ev, calls, r, i) ==
    ev \o [k \in 1..(2 * (Len(calls) - i + 1)) |->
             LET j == i + ((k - 1) \div 2)
             IN  IF k % 2 = 1
                 THEN Event("status", calls[j].name, "calling", r, j)
                 ELSE Event("callTool", calls[j].name, "", r, j)]
Invoke(ev, calls, r, i) ==
    ev \o << Event("status", calls[i].name, "calling", r, i),
             Event("callTool", calls[i].name, "", r, i) >>

\* what follows the settlement of callTool for call i: on both paths of the
\* try/catch, onToolStatus(fc.name, 'done')
SettleDoneOnSuccessOnly(ev, calls, promise, r, i) ==
    ev \o << Event("settled", calls[i].name, promise.state, r, i) >>
       \o (IF promise.state = "resolved"
           THEN << Event("status", calls[i].name, "done", r, i) >> ELSE << >>)
Settle(ev, calls, promise, r, i) ==
    ev \o << Event("settled", calls[i].name, promise.state, r, i),
             Event("status", calls[i].name, "done", r, i) >>

SendMessage(userMessage, p) ==
    /\ pc = "idle"
    /\ ops < MaxOps
    /\ Len(conversationHistory) <= MaxHistory
    /\ ops' = ops + 1
    /\ policy' = p
    /\ conversationHistory' = Append(conversationHistory, UserTextMessage(userMessage))
    /\ histAtSend' = conversationHistory
    /\ histAtRound' = conversationHistory'
    /\ round' = 0
    /\ EnterRound(0, <<>>, 0)
    /\ outcome' = "pending"
    /\ thrown' = NoError
    /\ providerError' = NoError
    /\ result' = NoResult
    /\ callIdx' = 0
    /\ inflight' = NoPromise
    /\ responseParts' = <<>>
    /\ attempt' = 0
    /\ prompt' = <<>>
    /\ followUps' = <<>>
    /\ genCalls' = 0
    /\ fuOutcome' = "none"
    /\ genLog' = <<>>
    /\ UNCHANGED <<provider, modelId, now, gatewayVars, adapterVars, hostVars>>

\* the timer set by waitForCapacity fired: re-check
Wake ==
    /\ pc = "sleep"
    /\ now >= wakeAt
    /\ EnterRound(round, events, streamCalls)
    /\ UNCHANGED <<provider, modelId, conversationHistory, now, round, policy, result,
                   callIdx, inflight, responseParts, outcome, thrown, providerError,
                   gatewayVars, adapterVars, hostVars, ops, histAtSend, histAtRound,
                   followUpVars>>

\* streamChat resolved: recordRequest(), then the final answer, or the
\* model turn and the first tool call
StreamChatReturn ==
    /\ pc = "stream"
    /\ result' = Reply(policy, round)
    /\ requestTimestamps' = Recorded(requestTimestamps, now, provider.rateLimit.windowMs)
    /\ IF result'.functionCalls = <<>>
       THEN /\ conversationHistory' = Append(conversationHistory, FinalMessage(result'))
            /\ pc' = "idle"
            /\ outcome' = "resolved"
            /\ UNCHANGED <<callIdx, inflight, events>>
       ELSE /\ conversationHistory' =
                  Append(conversationHistory, [role |-> "model", parts |-> ModelParts(result')])
            /\ callIdx' = 1
            /\ events' = Invoke(events, result'.functionCalls, round, 1)
            /\ inflight' = callTool(toolToServer, clients,
                                    result'.functionCalls[1].name, result'.functionCalls[1].args)
            /\ pc' = "tool"
            /\ outcome' = outcome
    /\ UNCHANGED <<provider, modelId, now, round, policy, responseParts, wakeAt, streamCalls,
                   thrown, providerError, gatewayVars, adapterVars, hostVars, ops,
                   histAtSend, histAtRound, followUpVars>>

\* streamChat rejected: nothing catches it inside sendMessage
ThrowWrapped(err) ==
    /\ pc = "stream"
    /\ pc' = "idle"
    /\ outcome' = "rejected"
    /\ thrown' = [status |-> 0, message |-> err.message]
    /\ providerError' = err
    /\ UNCHANGED <<provider, modelId, conversationHistory, requestTimestamps, now, round,
                   policy, result, callIdx, inflight, responseParts, wakeAt, events,
                   streamCalls, gatewayVars, adapterVars, hostVars, ops, histAtSend, histAtRound,
                   followUpVars>>
ThrowAfterPush(err) ==
    /\ pc = "stream"
    /\ pc' = "idle"
    /\ outcome' = "rejected"
    /\ thrown' = err
    /\ providerError' = err
    /\ conversationHistory' = Append(conversationHistory, [role |-> "model", parts |-> <<>>])
    /\ UNCHANGED <<provider, modelId, requestTimestamps, now, round,
                   policy, result, callIdx, inflight, responseParts, wakeAt, events,
                   streamCalls, gatewayVars, adapterVars, hostVars, ops, histAtSend, histAtRound,
                   followUpVars>>
ThrowRollingBack(err) ==
    /\ pc = "stream"
    /\ pc' = "idle"
    /\ outcome' = "rejected"
    /\ thrown' = err
    /\ providerError' = err
    /\ conversationHistory' = IF round = 0 THEN histAtSend ELSE conversationHistory
    /\ UNCHANGED <<provider, modelId, requestTimestamps, now, round,
                   policy, result, callIdx, inflight, responseParts, wakeAt, events,
                   streamCalls, gatewayVars, adapterVars, hostVars, ops, histAtSend, histAtRound,
                   followUpVars>>
StreamChatThrow(err) ==
    /\ pc = "stream"
    /\ pc' = "idle"
    /\ outcome' = "rejected"
    /\ thrown' = err
    /\ providerError' = err
    /\ UNCHANGED <<provider, modelId, conversationHistory, requestTimestamps, now, round,
                   policy, result, callIdx, inflight, responseParts, wakeAt, events,
                   streamCalls, gatewayVars, adapterVars, hostVars, ops, histAtSend, histAtRound,
                   followUpVars>>

\* callTool for call callIdx settled: its functionResponse part and 'done',
\* then the next call of the round, or the tool-response message and the
\* next round
ToolSettled ==
    /\ pc = "tool"
    /\ LET calls == result.functionCalls
           fc == calls[callIdx]
           parts == Append(responseParts, ResponsePart(fc, inflight))
           ev == Settle(events, calls, inflight, round, callIdx)
       IN  IF callIdx < Len(calls)
           THEN /\ responseParts' = parts
                /\ callIdx' = callIdx + 1
                /\ events' = Invoke(ev, calls, round, callIdx + 1)
                /\ inflight' = callTool(toolToServer, clients,
                                        calls[callIdx + 1].name, calls[callIdx + 1].args)
                /\ UNCHANGED <<conversationHistory, requestTimestamps, pc, round, wakeAt,
                               streamCalls, outcome, histAtRound>>
           ELSE /\ conversationHistory' =
                      Append(conversationHistory, ToolResponseMessage(parts))
                /\ responseParts' = <<>>
                /\ callIdx' = 0
                /\ inflight' = NoPromise
                /\ round' = round + 1
                /\ IF round + 1 < MaxRounds
                   THEN /\ EnterRound(round + 1, ev, streamCalls)
                        /\ histAtRound' = conversationHistory'
                        /\ outcome' = outcome
                   ELSE /\ pc' = "idle"
                        /\ outcome' = "resolved"
                        /\ events' = ev
                        /\ UNCHANGED <<requestTimestamps, wakeAt, streamCalls, histAtRound>>
    /\ result' = result
    /\ UNCHANGED <<provider, modelId, now, policy, thrown, providerError,
                   gatewayVars, adapterVars, hostVars, ops, histAtSend, followUpVars>>

\* ----------------------------------------------------- generateFollowUps
\* textParts of a message: its non-empty text parts
RECURSIVE TextsOf(_)
TextsOf(parts) ==
    IF parts = <<>> THEN <<>>
    ELSE IF Head(parts).kind = "text" /\ Head(parts).text # ""
         THEN <<Head(parts).text>> \o TextsOf(Tail(parts))
         ELSE TextsOf(Tail(parts))

\* textParts.join(' ')
RECURSIVE Join(_)
Join(texts) ==
    IF Len(texts) = 1 THEN texts[1] ELSE texts[1] \o " " \o Join(Tail(texts))

\* String.prototype.slice(0, n)
Slice(str, n) == IF Len(str) <= n THEN str ELSE SubSeq(str, 1, n)

\* cleanMessages: the text-bearing messages of the history
RECURSIVE CleanMessages(_)
CleanMessages(history) ==
    IF history = <<>> THEN <<>>
    ELSE LET m == Head(history)
             textParts == TextsOf(m.parts)
         IN  IF textParts = <<>> THEN CleanMessages(Tail(history))
             ELSE <<[role |-> IF m.role = "model" THEN "model" ELSE "user",
                     text |-> Slice(Join(textParts), TurnChars)]>>
                  \o CleanMessages(Tail(history))

\* Array.prototype.slice(-n)
LastN(seq, n) == IF Len(seq) <= n THEN seq ELSE SubSeq(seq, Len(seq) - n + 1, Len(seq))

\* replies of generateOnce: whether /\[.*\]/s matches, whether JSON.parse
\* of the match succeeds, and the parsed array
GenerateReplies ==
    { [match |-> TRUE, valid |-> TRUE,
       items |-> <<[isString |-> TRUE, s |-> "Q1?"], [isString |-> FALSE, s |-> "7"],
                   [isString |-> TRUE, s |-> "Q2?"], [isString |-> TRUE, s |-> "Q3?"],
                   [isString |-> TRUE, s |-> "Q4?"]>>],
      [match |-> TRUE, valid |-> FALSE, items |-> <<>>],
      [match |-> FALSE, valid |-> FALSE, items |-> <<>>] }

\* parsed.filter(s => typeof s === 'string').slice(0, 3)
RECURSIVE Strings(_)
Strings(items) ==
    IF items = <<>> THEN <<>>
    ELSE IF Head(items).isString THEN <<Head(items).s>> \o Strings(Tail(items))
         ELSE Strings(Tail(items))

Suggestions(reply) ==
    IF reply.match /\ reply.valid
    THEN SubSeq(Strings(reply.items), 1,
                IF Len(Strings(reply.items)) < SuggestionCount
                THEN Len(Strings(reply.items)) ELSE SuggestionCount)
    ELSE <<>>

\* one entry of genLog: a generateOnce invocation ("call"), its rejection
\* ("error", with the status of the error) or its reply ("reply", with
\* whether an array could be parsed from it)
GenEntry(type, status, parsed) ==
    [type |-> type, status |-> status, at |-> now, parsed |-> parsed]

\* the outer catch of generateFollowUps: return []
OuterRethrow(err) == [state |-> "rejected", value |-> <<>>]
OuterCatch(err) == [state |-> "resolved", value |-> <<>>]

\* the error JSON.parse throws
SyntaxError == [status |-> 0, message |-> "Unexpected token"]

\* the inner catch: a further attempt after a delay, rather than throw err
RetryOnAnyError(err, a) == a < RetryAttempts - 1
Retries(err, a) == err.status = 429 /\ a < RetryAttempts - 1

\* (attempt + 1) * 5000
BackoffDelay(a) == (a + 1) * BackoffStepMs

\* an attempt of the retry loop: waitForCapacity(), then generateOnce is
\* invoked if capacity was granted
EnterAttempt(gc, log) ==
    /\ waitForCapacity("gen", "fuSleep")
    /\ genCalls' = IF HasCapacity THEN gc + 1 ELSE gc
    /\ genLog' = IF HasCapacity THEN Append(log, GenEntry("call", 0, FALSE)) ELSE log

GenerateFollowUps ==
    /\ pc = "idle"
    /\ ops < MaxOps
    /\ ops' = ops + 1
    /\ prompt' = LastN(CleanMessages(conversationHistory), RecentCount)
    /\ attempt' = 0
    /\ followUps' = <<>>
    /\ IF prompt' = <<>>
       THEN /\ genCalls' = 0
            /\ genLog' = <<>>
            /\ fuOutcome' = "resolved"
            /\ UNCHANGED <<requestTimestamps, pc, wakeAt>>
       ELSE /\ EnterAttempt(0, <<>>)
            /\ fuOutcome' = "pending"
    /\ UNCHANGED <<provider, modelId, conversationHistory, now, round, policy, result,
                   callIdx, inflight, responseParts, events, streamCalls, outcome, thrown,
                   providerError, gatewayVars, adapterVars, hostVars, histAtSend,
                   histAtRound>>

\* the timer set by waitForCapacity fired: re-check
FollowUpWake ==
    /\ pc = "fuSleep"
    /\ now >= wakeAt
    /\ EnterAttempt(genCalls, genLog)
    /\ UNCHANGED <<provider, modelId, conversationHistory, now, round, policy, result,
                   callIdx, inflight, responseParts, events, streamCalls, outcome, thrown,
                   providerError, gatewayVars, adapterVars, hostVars, ops, histAtSend,
                   histAtRound, attempt, prompt, followUps, fuOutcome>>

\* the catch of the retry loop for an error thrown in attempt number attempt:
\* sleep and go round again, or rethrow to the outer catch
InnerCatch(err) ==
    IF Retries(err, attempt)
    THEN /\ pc' = "backoff"
         /\ wakeAt' = now + BackoffDelay(attempt)
         /\ UNCHANGED <<followUps, fuOutcome>>
    ELSE /\ pc' = "idle"
         /\ wakeAt' = wakeAt
         /\ followUps' = OuterCatch(err).value
         /\ fuOutcome' = OuterCatch(err).state

\* generateOnce resolved: recordRequest(), then the parsed suggestions; a
\* match that JSON.parse rejects throws, and that error carries no status
GenerateOnceReturn(reply) ==
    /\ pc = "gen"
    /\ requestTimestamps' = Recorded(requestTimestamps, now, provider.rateLimit.windowMs)
    /\ genLog' = Append(genLog, GenEntry("reply", 0, reply.match /\ reply.valid))
    /\ IF reply.match /\ ~reply.valid
       THEN InnerCatch(SyntaxError)
       ELSE /\ followUps' = Suggestions(reply)
            /\ fuOutcome' = "resolved"
            /\ pc' = "idle"
            /\ wakeAt' = wakeAt
    /\ UNCHANGED <<provider, modelId, conversationHistory, now, round, policy, result,
                   callIdx, inflight, responseParts, events, streamCalls, outcome,
                   thrown, providerError, gatewayVars, adapterVars, hostVars, ops, histAtSend,
                   histAtRound, attempt, prompt, genCalls>>

\* generateOnce rejected: back off on a 429 before the last attempt, else
\* rethrow to the outer catch
GenerateOnceThrow(err) ==
    /\ pc = "gen"
    /\ genLog' = Append(genLog, GenEntry("error", err.status, FALSE))
    /\ InnerCatch(err)
    /\ UNCHANGED <<provider, modelId, conversationHistory, requestTimestamps, now, round,
                   policy, result, callIdx, inflight, responseParts, events, streamCalls,
                   outcome, thrown, providerError, gatewayVars, adapterVars, hostVars, ops,
                   histAtSend, histAtRound, attempt, prompt, genCalls>>

\* the backoff timer fired: next attempt
BackoffWake ==
    /\ pc = "backoff"
    /\ now >= wakeAt
    /\ attempt' = attempt + 1
    /\ EnterAttempt(genCalls, genLog)
    /\ UNCHANGED <<provider, modelId, conversationHistory, now, round, policy, result,
                   callIdx, inflight, responseParts, events, streamCalls, outcome, thrown,
                   providerError, gatewayVars, adapterVars, hostVars, ops, histAtSend,
                   histAtRound, prompt, followUps, fuOutcome>>

Next ==
    \/ Tick
    \/ AdvanceToTimer
    \/ \E userMessage \in {"hello"}, p \in Policies : SendMessage(userMessage, p)
    \/ Wake
    \/ StreamChatReturn
    \/ \E err \in ProviderErrors : StreamChatThrow(err)
    \/ ToolSettled
    \/ GenerateFollowUps
    \/ FollowUpWake
    \/ \E reply \in GenerateReplies : GenerateOnceReturn(reply)
    \/ \E err \in ProviderErrors : GenerateOnceThrow(err)
    \/ BackoffWake

Spec == Init /\ [][Next]_vars

\* ------------------------------------------------- the host and the history
\* getHistory() returns the array the engine holds; restoreHistory(history)
\* makes the engine hold the array it is given
getHistory(history) == history
RestoreWithoutFirst(history) == IF history = <<>> THEN <<>> ELSE Tail(history)
restoreHistory(history) == history

\* histories of saved chats that load-chat hands to restoreHistory
SavedChats ==
    { <<>>,
      << UserTextMessage("shalom"),
         FinalMessage([text |-> "shalom", functionCalls |-> <<>>]) >> }

\* what the host keeps of a call op on the history: the history and ledger
\* it saw before, and what getHistory() returns afterwards
View(op, after) ==
    [op |-> op, calls |-> hostView.calls + 1,
     before |-> getHistory(conversationHistory), after |-> getHistory(after),
     ledgerBefore |-> requestTimestamps, ledgerAfter |-> requestTimestamps']

\* clearHistory(), from new-chat, clear-chat or a provider switch
ClearHistory ==
    /\ pc = "idle"
    /\ hostView.calls < MaxHostCalls
    /\ conversationHistory' = <<>>
    /\ UNCHANGED <<provider, modelId, requestTimestamps, now, pc, round, policy, result,
                   callIdx, inflight, responseParts, wakeAt, events, streamCalls, outcome,
                   thrown, providerError, ops, histAtSend, histAtRound, followUpVars,
                   gatewayVars, adapterVars, queryVars>>
    /\ hostView' = View("clearHistory", conversationHistory')

\* restoreHistory(chat.history), from load-chat
RestoreHistory(history) ==
    /\ pc = "idle"
    /\ hostView.calls < MaxHostCalls
    /\ conversationHistory' = restoreHistory(history)
    /\ UNCHANGED <<provider, modelId, requestTimestamps, now, pc, round, policy, result,
                   callIdx, inflight, responseParts, wakeAt, events, streamCalls, outcome,
                   thrown, providerError, ops, histAtSend, histAtRound, followUpVars,
                   gatewayVars, adapterVars, queryVars>>
    /\ hostView' = View("restoreHistory", conversationHistory')

\* restoreHistory(getHistory()), then getHistory() again
RoundTrip ==
    /\ pc = "idle"
    /\ hostView.calls < MaxHostCalls
    /\ conversationHistory' = restoreHistory(getHistory(conversationHistory))
    /\ UNCHANGED <<provider, modelId, requestTimestamps, now, pc, round, policy, result,
                   callIdx, inflight, responseParts, wakeAt, events, streamCalls, outcome,
                   thrown, providerError, ops, histAtSend, histAtRound, followUpVars,
                   gatewayVars, adapterVars, queryVars>>
    /\ hostView' = View("roundTrip", conversationHistory')

\* the models that answer after at most two tool rounds
ShortPolicies == {p \in Policies : p.toolRounds <= 2}

\* an engine of the unlimited local provider, which never waits for capacity;
\* the clock stands still
InitHistory ==
    /\ provider = ProviderLocal
    /\ modelId = ProviderLocal.defaultModel
    /\ Connected(Servers)
    /\ FreshEngine
    /\ NoAdapter
    /\ NoHost

NextHistory ==
    \/ \E userMessage \in {"hello"}, p \in ShortPolicies : SendMessage(userMessage, p)
    \/ StreamChatReturn
    \/ \E err \in ProviderErrors : StreamChatThrow(err)
    \/ ToolSettled
    \/ ClearHistory
    \/ \E history \in SavedChats : RestoreHistory(history)
    \/ RoundTrip

SpecHistory == InitHistory /\ [][NextHistory]_vars

\* ------------------------------------------------- the gateway's life cycle
\* what the servers may advertise: the default, and two tool servers that
\* both offer "search"
CollidingRemote ==
    [s \in Servers |->
        IF s = "sefaria-texts" THEN [hasTools |-> TRUE, tools |-> <<"search", "get_text">>]
        ELSE [hasTools |-> TRUE, tools |-> <<"search">>]]
Remotes == {DefaultRemote, CollidingRemote}

\* calls the host makes through callTool
HostToolNames == {"search", "lookup"}
HostToolArgs == {"obj", "bad"}

\* Map.prototype.set
Put(map, k, v) == [x \in DOMAIN map \cup {k} |-> IF x = k THEN v ELSE map[x]]

\* the loop over result.tools: this.tools.push(...) and this.toolToServer.set(...)
PushTools(catalog, server, names) ==
    catalog \o [i \in 1..Len(names) |-> [name |-> names[i], serverName |-> server]]
RECURSIVE SetRoutes(_, _, _)
SetRoutes(routing, server, names) ==
    IF names = <<>> THEN routing
    ELSE SetRoutes(Put(routing, Head(names), server), server, Tail(names))

\* listAllTools()
listAllTools(catalog) == catalog

\* getConnectionStatus(): the configured servers in order, each under
\* connected or under failed with connectionErrors.get(name) || 'Unknown error'
RECURSIVE StatusOf(_, _, _)
StatusOf(servers, live, errors) ==
    IF servers = <<>> THEN [connected |-> <<>>, failed |-> <<>>]
    ELSE LET rest == StatusOf(Tail(servers), live, errors)
             name == Head(servers)
         IN  IF name \in live
             THEN [connected |-> <<name>> \o rest.connected, failed |-> rest.failed]
             ELSE [connected |-> rest.connected,
                   failed |-> <<[name |-> name,
                                 error |-> IF name \in DOMAIN errors /\ errors[name] # ""
                                           THEN errors[name] ELSE "Unknown error"]>>
                              \o rest.failed]
getConnectionStatus(live, errors) == StatusOf(ServerNames, live, errors)

\* the calls the servers receive from callTool(name, args)
Received(routing, live, name, args) ==
    IF name \in DOMAIN routing /\ routing[name] \in live
    THEN <<LogEntry("received", routing[name], name, args, TRUE)>>
    ELSE <<>>

\* connect(): the callback of every server runs up to its first await, the
\* connection attempt over Streamable HTTP
Connect ==
    /\ connectPromise = "none"
    /\ connectPromise' = "pending"
    /\ connectPc' = [s \in Servers |-> "primary"]
    /\ UNCHANGED <<clients, toolToServer, tools, connectionErrors, disconnectPc, visited,
                   remote, gatewayLog, toolResult, engineVars, adapterVars, hostVars>>

\* a transport connected for server s: this.clients.set(...), then listTools()
\* if the server declares the tools capability
Register(s, log) ==
    /\ clients' = clients \cup {s}
    /\ connectPc' = [connectPc EXCEPT ![s] = IF remote[s].hasTools THEN "listing" ELSE "done"]
    /\ gatewayLog' = log
    /\ UNCHANGED <<toolToServer, tools, connectionErrors>>

\* how the callback of a server ends when its catch has handled an error
Rethrown(message) == "threw"
Caught(message) == "done"

\* the catch of the callback of server s: this.connectionErrors.set(...)
RecordNothing(s, log, message) ==
    /\ connectionErrors' = connectionErrors
    /\ connectPc' = [connectPc EXCEPT ![s] = Caught(message)]
    /\ gatewayLog' = LogTo(log, s, LogEntry("error", s, message, "", FALSE))
    /\ UNCHANGED <<clients, toolToServer, tools>>
RecordError(s, log, message) ==
    /\ connectionErrors' = Put(connectionErrors, s, message)
    /\ connectPc' = [connectPc EXCEPT ![s] = Caught(message)]
    /\ gatewayLog' = LogTo(log, s, LogEntry("error", s, message, "", FALSE))
    /\ UNCHANGED <<clients, toolToServer, tools>>

\* client.connect(new StreamableHTTPClientTransport(url)) settled
PrimarySettled(s, ok) ==
    /\ connectPc[s] = "primary"
    /\ LET log == LogTo(gatewayLog, s, LogEntry("transport", s, "streamable", "", ok))
       IN  IF ok THEN Register(s, log)
           ELSE /\ connectPc' = [connectPc EXCEPT ![s] = "secondary"]
                /\ gatewayLog' = log
                /\ UNCHANGED <<clients, toolToServer, tools, connectionErrors>>
    /\ UNCHANGED <<connectPromise, disconnectPc, visited, remote, toolResult,
                   engineVars, adapterVars, hostVars>>

\* client.connect(new SSEClientTransport(url)) settled
SecondarySettled(s, ok) ==
    /\ connectPc[s] = "secondary"
    /\ LET log == LogTo(gatewayLog, s, LogEntry("transport", s, "sse", "", ok))
       IN  IF ok THEN Register(s, log) ELSE RecordError(s, log, BothFailed)
    /\ UNCHANGED <<connectPromise, disconnectPc, visited, remote, toolResult,
                   engineVars, adapterVars, hostVars>>

\* the client of server s was closed, which fails its pending requests
Closed(s) ==
    \E j \in Logged(s, "close") : gatewayLog[s][j].ok

\* client.listTools() settled
ListToolsSettled(s, ok) ==
    /\ connectPc[s] = "listing"
    /\ ok => ~Closed(s)
    /\ LET log == LogTo(gatewayLog, s, LogEntry("listTools", s, "", "", ok))
       IN  IF ok
           THEN /\ tools' = PushTools(tools, s, remote[s].tools)
                /\ toolToServer' = SetRoutes(toolToServer, s, remote[s].tools)
                /\ connectPc' = [connectPc EXCEPT ![s] = "done"]
                /\ gatewayLog' = log
                /\ UNCHANGED <<clients, connectionErrors>>
           ELSE RecordError(s, log, ListFailed)
    /\ UNCHANGED <<connectPromise, disconnectPc, visited, remote, toolResult,
                   engineVars, adapterVars, hostVars>>

\* await Promise.all(connectPromises): every callback has returned, or one
\* of them has thrown
ConnectSettled ==
    /\ connectPromise = "pending"
    /\ \/ \A s \in Servers : connectPc[s] = "done"
       \/ \E s \in Servers : connectPc[s] = "threw"
    /\ connectPromise' = IF \E s \in Servers : connectPc[s] = "threw"
                         THEN "rejected" ELSE "resolved"
    /\ UNCHANGED <<clients, toolToServer, tools, connectionErrors, connectPc, disconnectPc,
                   visited, remote, gatewayLog, toolResult, engineVars, adapterVars, hostVars>>

\* the for loop of disconnect() moves on: close() of a client of the map not
\* yet visited is awaited (the order of the map is not kept: any of them),
\* or the loop is over and the routing state is cleared
ClearClientsOnly(seen) ==
    LET unvisited == {s \in clients : \A k \in 1..Len(seen) : seen[k] # s}
    IN  IF unvisited # {}
        THEN /\ \E s \in unvisited : visited' = Append(seen, s)
             /\ disconnectPc' = "closing"
             /\ UNCHANGED <<clients, toolToServer, tools>>
        ELSE /\ visited' = seen
             /\ disconnectPc' = "done"
             /\ clients' = {}
             /\ UNCHANGED <<toolToServer, tools>>
CloseNext(seen) ==
    LET unvisited == {s \in clients : \A k \in 1..Len(seen) : seen[k] # s}
    IN  IF unvisited # {}
        THEN /\ \E s \in unvisited : visited' = Append(seen, s)
             /\ disconnectPc' = "closing"
             /\ UNCHANGED <<clients, toolToServer, tools>>
        ELSE /\ visited' = seen
             /\ disconnectPc' = "done"
             /\ clients' = {}
             /\ tools' = <<>>
             /\ toolToServer' = <<>>

\* disconnect() is called
Disconnect ==
    /\ connectPromise # "none"
    /\ disconnectPc \in {"idle", "done"}
    /\ Cardinality(Logged("host", "disconnect()")) < MaxDisconnects
    /\ gatewayLog' = LogTo(gatewayLog, "host", LogEntry("disconnect()", "", "", "", TRUE))
    /\ CloseNext(<<>>)
    /\ UNCHANGED <<connectionErrors, connectPc, connectPromise, remote, toolResult,
                   engineVars, adapterVars, hostVars>>

\* client.close() settled; a rejection is ignored
CloseAbortsOnThrow(ok) ==
    /\ disconnectPc = "closing"
    /\ gatewayLog' =
          LogTo(gatewayLog, visited[Len(visited)],
                LogEntry("close", visited[Len(visited)], "", "", ok))
    /\ IF ok THEN CloseNext(visited)
       ELSE /\ visited' = visited
            /\ disconnectPc' = "done"
            /\ clients' = {}
            /\ tools' = <<>>
            /\ toolToServer' = <<>>
    /\ UNCHANGED <<connectionErrors, connectPc, connectPromise, remote, toolResult,
                   engineVars, adapterVars, hostVars>>
CloseSettled(ok) ==
    /\ disconnectPc = "closing"
    /\ gatewayLog' =
          LogTo(gatewayLog, visited[Len(visited)],
                LogEntry("close", visited[Len(visited)], "", "", ok))
    /\ CloseNext(visited)
    /\ UNCHANGED <<connectionErrors, connectPc, connectPromise, remote, toolResult,
                   engineVars, adapterVars, hostVars>>

\* the host (the engine, for the model) calls callTool(name, args)
CallTool(name, args) ==
    /\ Cardinality(Logged("host", "callTool()")) < MaxToolCalls
    /\ toolResult' = callTool(toolToServer, clients, name, args)
    /\ gatewayLog' =
          LET log == LogTo(gatewayLog, "host", LogEntry("callTool()", "", name, args, TRUE))
              got == Received(toolToServer, clients, name, args)
          IN  IF got = <<>> THEN log ELSE LogTo(log, got[1].server, got[1])
    /\ UNCHANGED <<clients, toolToServer, tools, connectionErrors, connectPc, connectPromise,
                   disconnectPc, visited, remote, engineVars, adapterVars, hostVars>>

\* a gateway just constructed, and servers that advertise one of Remotes
InitGateway ==
    /\ provider = ProviderLocal
    /\ modelId = ProviderLocal.defaultModel
    /\ FreshEngine
    /\ NoAdapter
    /\ NoHost
    /\ clients = {}
    /\ toolToServer = <<>>
    /\ tools = <<>>
    /\ connectionErrors = <<>>
    /\ connectPc = [s \in Servers |-> "idle"]
    /\ connectPromise = "none"
    /\ disconnectPc = "idle"
    /\ visited = <<>>
    /\ remote \in Remotes
    /\ gatewayLog = NoLog
    /\ toolResult = NoPromise

NextGateway ==
    \/ Connect
    \/ \E s \in Servers, ok \in BOOLEAN : PrimarySettled(s, ok)
    \/ \E s \in Servers, ok \in BOOLEAN : SecondarySettled(s, ok)
    \/ \E s \in Servers, ok \in BOOLEAN : ListToolsSettled(s, ok)
    \/ ConnectSettled
    \/ Disconnect
    \/ \E ok \in BOOLEAN : CloseSettled(ok)
    \/ \E name \in HostToolNames, args \in HostToolArgs : CallTool(name, args)

SpecGateway == InitGateway /\ [][NextGateway]_vars

\* ------------------------------------------------ the adapters' streamChat
\* Chunks of the Groq (OpenAI-compatible) stream: choices[0].delta may be
\* missing; a delta carries content and tool_calls fragments.
GroqFragment(index, id, name, arguments) ==
    [index |-> index, id |-> id, name |-> name, arguments |-> arguments]
GroqChunks ==
    { [delta |-> FALSE, content |-> "", tool_calls |-> <<>>],
      [delta |-> TRUE, content |-> "Sha", tool_calls |-> <<>>],
      [delta |-> TRUE, content |-> "lom", tool_calls |-> <<>>],
      [delta |-> TRUE, content |-> "", tool_calls |-> <<GroqFragment(0, "call_a", "search", "{")>>],
      [delta |-> TRUE, content |-> "", tool_calls |-> <<GroqFragment(0, "", "", "}")>>],
      [delta |-> TRUE, content |-> "", tool_calls |-> <<GroqFragment(1, "call_b", "lookup", "{q")>>],
      [delta |-> TRUE, content |-> "", tool_calls |-> <<GroqFragment(1, "", "", "}")>>],
      [delta |-> TRUE, content |-> "",
       tool_calls |-> <<GroqFragment(0, "call_a", "search", "{"),
                        GroqFragment(1, "call_b", "lookup", "{q")>>],
      [delta |-> TRUE, content |-> "",
       tool_calls |-> <<GroqFragment(1, "", "", "}"), GroqFragment(0, "", "", "}")>>] }

\* Chunks of the Gemini stream: candidates[0].content.parts may be missing;
\* a part carries text, a functionCall (its name) or both; text is chunk.text.
GeminiPart(text, call) == [text |-> text, call |-> call]
GeminiChunks ==
    { [hasParts |-> TRUE, parts |-> <<GeminiPart("Sha", "")>>, text |-> "Sha"],
      [hasParts |-> TRUE, parts |-> <<GeminiPart("lom", ""), GeminiPart("!", "")>>, text |-> "lom!"],
      [hasParts |-> TRUE, parts |-> <<GeminiPart("", "search")>>, text |-> ""],
      [hasParts |-> FALSE, parts |-> <<>>, text |-> "raw"],
      [hasParts |-> FALSE, parts |-> <<>>, text |-> ""] }

\* the adapters of the OpenAI-compatible vendors: the loop of streamChat of
\* MistralProvider is that of GroqProvider
OpenAiAdapters == {"groq", "mistral"}

ChunksOf(a) == IF a \in OpenAiAdapters THEN GroqChunks ELSE GeminiChunks

\* Groq: if (delta.content) { text += delta.content; onTextChunk(delta.content) }
GroqText(text, chunk) ==
    IF chunk.delta /\ chunk.content # "" THEN text \o chunk.content ELSE text
GroqForward(fw, chunk) ==
    IF chunk.delta /\ chunk.content # "" THEN Append(fw, chunk.content) ELSE fw

\* Groq: one tool_calls fragment merged into toolCallsMap (kept in insertion order)
MergeKeepingLastFragment(map, tc) ==
    LET known == \E k \in 1..Len(map) : map[k].index = tc.index
        m == IF known THEN map
             ELSE Append(map, [index |-> tc.index, id |-> tc.id, name |-> "", args |-> ""])
    IN  [k \in 1..Len(m) |->
            IF m[k].index # tc.index THEN m[k]
            ELSE [index |-> tc.index,
                  id |-> IF tc.id # "" THEN tc.id ELSE m[k].id,
                  name |-> m[k].name \o tc.name,
                  args |-> IF tc.arguments # "" THEN tc.arguments ELSE m[k].args]]
GroqMerge(map, tc) ==
    LET known == \E k \in 1..Len(map) : map[k].index = tc.index
        m == IF known THEN map
             ELSE Append(map, [index |-> tc.index, id |-> tc.id, name |-> "", args |-> ""])
    IN  [k \in 1..Len(m) |->
            IF m[k].index # tc.index THEN m[k]
            ELSE [index |-> tc.index,
                  id |-> IF tc.id # "" THEN tc.id ELSE m[k].id,
                  name |-> m[k].name \o tc.name,
                  args |-> m[k].args \o tc.arguments]]

RECURSIVE GroqAssemble(_, _)
GroqAssemble(map, tcs) ==
    IF tcs = <<>> THEN map ELSE GroqAssemble(GroqMerge(map, Head(tcs)), Tail(tcs))

\* JSON.parse(tc.args || '{}'): the texts it accepts, and the object it
\* returns for them, given by its keys
JsonKeys == {"q"}
ValidJson == {"{}"} \cup {"{" \o k \o "}" : k \in JsonKeys}
Parses(args) == args = "" \/ args \in ValidJson
JsonParse(text) == {k \in JsonKeys : text = "{" \o k \o "}"}

\* Array.from(toolCallsMap.values()).map(tc => ({ name, args: JSON.parse(...), id }))
GroqFunctionCalls(map) ==
    [k \in 1..Len(map) |->
        [name |-> map[k].name,
         args |-> JsonParse(IF map[k].args = "" THEN "{}" ELSE map[k].args),
         id |-> map[k].id]]

\* Gemini: { name, args: part.functionCall.args || {} }, which has no id
GeminiFunctionCalls(calls) ==
    [k \in 1..Len(calls) |-> [name |-> calls[k], args |-> {}, id |-> NoId]]

\* Gemini: per part, if (part.text) { text += part.text; onTextChunk(part.text) }
RECURSIVE GeminiPartsText(_, _)
GeminiPartsText(text, parts) ==
    IF parts = <<>> THEN text
    ELSE GeminiPartsText(IF Head(parts).text # "" THEN text \o Head(parts).text ELSE text,
                         Tail(parts))
ForwardWholeChunk(fw, parts) ==
    IF GeminiPartsText("", parts) # "" THEN Append(fw, GeminiPartsText("", parts)) ELSE fw
RECURSIVE GeminiPartsForward(_, _)
GeminiPartsForward(fw, parts) ==
    IF parts = <<>> THEN fw
    ELSE GeminiPartsForward(IF Head(parts).text # "" THEN Append(fw, Head(parts).text) ELSE fw,
                            Tail(parts))

\* Gemini: functionCalls.push for every part with a named functionCall
RECURSIVE GeminiCalls(_, _)
GeminiCalls(calls, parts) ==
    IF parts = <<>> THEN calls
    ELSE GeminiCalls(IF Head(parts).call # "" THEN Append(calls, Head(parts).call) ELSE calls,
                     Tail(parts))

\* the body of the for await loop of GroqProvider.streamChat for one chunk
GroqChunk ==
    /\ adapter \in OpenAiAdapters
    /\ adapterPc = "reading"
    /\ stream # <<>>
    /\ LET chunk == Head(stream)
       IN  /\ streamText' = GroqText(streamText, chunk)
           /\ forwarded' = GroqForward(forwarded, chunk)
           /\ assembled' = IF chunk.delta THEN GroqAssemble(assembled, chunk.tool_calls)
                           ELSE assembled
           /\ consumed' = Append(consumed, chunk)
    /\ stream' = Tail(stream)
    /\ UNCHANGED <<adapter, adapterPc, vendorVars, engineVars, gatewayVars, hostVars>>

\* the body of the for await loop of GeminiProvider.streamChat for one chunk
GeminiChunk ==
    /\ adapter = "gemini"
    /\ adapterPc = "reading"
    /\ stream # <<>>
    /\ LET chunk == Head(stream)
       IN  /\ IF chunk.hasParts
              THEN /\ streamText' = GeminiPartsText(streamText, chunk.parts)
                   /\ forwarded' = GeminiPartsForward(forwarded, chunk.parts)
                   /\ assembled' = GeminiCalls(assembled, chunk.parts)
              ELSE /\ streamText' = IF chunk.text # "" THEN streamText \o chunk.text
                                    ELSE streamText
                   /\ forwarded' = IF chunk.text # "" THEN Append(forwarded, chunk.text)
                                   ELSE forwarded
                   /\ assembled' = assembled
           /\ consumed' = Append(consumed, chunk)
    /\ stream' = Tail(stream)
    /\ UNCHANGED <<adapter, adapterPc, vendorVars, engineVars, gatewayVars, hostVars>>

\* the stream ended: return { text, functionCalls }; the Groq adapter first
\* parses the argument text of every assembled call, which may throw
AdapterReturn ==
    /\ adapterPc = "reading"
    /\ stream = <<>>
    /\ IF adapter \in OpenAiAdapters /\ \E k \in 1..Len(assembled) : ~Parses(assembled[k].args)
       THEN /\ adapterPc' = "threw"
            /\ adapterError' = "SyntaxError"
            /\ returned' = returned
       ELSE /\ adapterPc' = "returned"
            /\ adapterError' = adapterError
            /\ returned' = IF adapter \in OpenAiAdapters THEN GroqFunctionCalls(assembled)
                           ELSE GeminiFunctionCalls(assembled)
    /\ UNCHANGED <<adapter, stream, streamText, forwarded, consumed, assembled,
                   wire, timerVars, engineVars, gatewayVars, hostVars>>

\* streamChat of either adapter, called on any stream of at most MaxChunks chunks
InitAdapter ==
    /\ provider = ProviderLocal
    /\ modelId = ProviderLocal.defaultModel
    /\ Connected(Servers)
    /\ FreshEngine
    /\ NoHost
    /\ NoVendor
    /\ adapter \in OpenAiAdapters \cup {"gemini"}
    /\ stream \in UNION {[1..n -> ChunksOf(adapter)] : n \in 0..MaxChunks}
    /\ streamText = ""
    /\ forwarded = <<>>
    /\ consumed = <<>>
    /\ assembled = <<>>
    /\ adapterPc = "reading"

NextAdapter ==
    \/ GroqChunk
    \/ GeminiChunk
    \/ AdapterReturn

SpecAdapter == InitAdapter /\ [][NextAdapter]_vars

\* ------------------------------------- the host's queries on a paced engine
\* a provider paced per minute, with a model that overrides its limit
ProviderPaced ==
    [id |-> "paced",
     models |-> <<[id |-> "steady", hasRpm |-> FALSE, rpm |-> 0],
                  [id |-> "lite", hasRpm |-> TRUE, rpm |-> 3]>>,
     defaultModel |-> "steady",
     rateLimit |-> [rpm |-> 5, windowMs |-> 60000]]

\* (provider, modelId) pairs; "custom" is in no model list
PacedConfigs ==
    { <<ProviderPaced, "steady">>, <<ProviderPaced, "lite">>,
      <<ProviderPaced, "custom">>, <<ProviderFree, "flash">>,
      <<ProviderTiny, "tiny-1">> }

\* Math.floor(rpm * 0.6): the double product of an integer rpm and 0.6 has
\* the floor of the exact product 6 * rpm / 10
followUpBudget(rpm) == (rpm * 6) \div 10

\* Math.max(0, Math.ceil((oldest + windowMs - now) / 1000)), 0 on an empty ledger
resetsInSeconds(pruned, windowMs, t) ==
    LET oldest == IF pruned = <<>> THEN 0 ELSE pruned[1]
    IN  IF oldest # 0 THEN Max(0, 0 - ((0 - (oldest + windowMs - t)) \div 1000))
        ELSE 0

\* hasCapacityForFollowUps(), which send-message calls once sendMessage resolved
HasCapacityForFollowUps ==
    LET pruned == Prune(requestTimestamps, now, provider.rateLimit.windowMs)
        rpm == getEffectiveRpm(provider, modelId)
    IN  /\ pc = "idle"
        /\ outcome = "resolved"
        /\ requestTimestamps' = pruned
        /\ hostQuery' = [op |-> "hasCapacityForFollowUps", used |-> Len(pruned),
                         limit |-> rpm, resetsInSeconds |-> 0,
                         answer |-> Len(pruned) < followUpBudget(rpm)]
        /\ UNCHANGED <<provider, modelId, conversationHistory, now, pc, round, policy,
                       result, callIdx, inflight, responseParts, wakeAt, events,
                       streamCalls, outcome, thrown, providerError, ops, histAtSend,
                       histAtRound, followUpVars, gatewayVars, adapterVars, hostView,
                       signal, mainVars>>

\* getUsageStats(), from send-message and from get-usage-stats at any time
getUsageStats(pruned, prov, id, t) ==
    [op |-> "getUsageStats", used |-> Len(pruned), limit |-> getEffectiveRpm(prov, id),
     resetsInSeconds |-> resetsInSeconds(pruned, prov.rateLimit.windowMs, t),
     answer |-> FALSE]

GetUsageStats ==
    LET pruned == Prune(requestTimestamps, now, provider.rateLimit.windowMs)
    IN  /\ requestTimestamps' = pruned
        /\ hostQuery' = getUsageStats(pruned, provider, modelId, now)
        /\ UNCHANGED <<provider, modelId, conversationHistory, now, pc, round, policy,
                       result, callIdx, inflight, responseParts, wakeAt, events,
                       streamCalls, outcome, thrown, providerError, ops, histAtSend,
                       histAtRound, followUpVars, gatewayVars, adapterVars, hostView,
                       signal, mainVars>>

\* cancelMessage() of the renderer while streamChat is awaited: it invokes
\* 'cancel-message', for which main registers no handler, and sendMessage
\* hands no signal to streamChat, so the engine's task is not touched
CancelMessage ==
    /\ pc = "stream"
    /\ signal' = [fired |-> TRUE, op |-> ops, call |-> streamCalls]
    /\ UNCHANGED <<engineVars, gatewayVars, adapterVars, hostView, hostQuery, mainVars>>

\* the models that answer at once, or call a tool in every round but the last
PacedPolicies == {p \in Policies : p.toolRounds \in {0, MaxRounds - 1}}

\* the clock moves only when a timer of the engine is due: requests follow
\* each other at once
InitHostCalls ==
    /\ \E cfg \in PacedConfigs : provider = cfg[1] /\ modelId = cfg[2]
    /\ Connected(Servers)
    /\ FreshEngine
    /\ NoAdapter
    /\ NoHost

NextHostCalls ==
    \/ \E userMessage \in {"hello"}, p \in PacedPolicies : SendMessage(userMessage, p)
    \/ AdvanceToTimer
    \/ Wake
    \/ StreamChatReturn
    \/ \E err \in ProviderErrors : StreamChatThrow(err)
    \/ ToolSettled
    \/ HasCapacityForFollowUps
    \/ GetUsageStats
    \/ CancelMessage

SpecHostCalls == InitHostCalls /\ [][NextHostCalls]_vars

\* ------------------------------------------------------- convertHistory
\* the parts with p.functionResponse, with p.functionCall
HasFunctionResponse(p) == p.kind = "functionResponse"
HasFunctionCall(p) == p.kind = "functionCall"

\* p.functionResponse.callId || p.functionResponse.name, and
\* p.functionCall.id || prefix + p.functionCall.name: a missing or empty id
\* gives way to the name
Falsy(id) == id = NoId \/ id = ""
ToolResultId(part) == IF Falsy(part.callId) THEN part.name ELSE part.callId
ToolCallId(part, prefix) == IF Falsy(part.id) THEN prefix \o part.name ELSE part.id

\* JSON.stringify(value): the text that parses back to value
JsonStringify(value) == [json |-> value]

\* textParts.join('\n')
RECURSIVE JoinLines(_)
JoinLines(texts) ==
    IF texts = <<>> THEN ""
    ELSE IF Len(texts) = 1 THEN texts[1] ELSE texts[1] \o "\n" \o JoinLines(Tail(texts))

HasToolResponses(msg) == \E i \in 1..Len(msg.parts) : HasFunctionResponse(msg.parts[i])

\* GroqProvider.convertHistory: the messages pushed for one canonical message;
\* tool_calls = <<>> stands for a message without the field, null content
\* for content: null
GroqMessage(role, content, id, calls) ==
    [role |-> role, content |-> content, tool_call_id |-> id, tool_calls |-> calls]

RECURSIVE GroqResponseParts(_)
GroqResponseParts(parts) ==
    IF parts = <<>> THEN <<>>
    ELSE LET p == Head(parts)
         IN  (IF HasFunctionResponse(p)
              THEN <<GroqMessage("tool", JsonStringify(p.response),
                                 ToolResultId(p), <<>>)>>
              ELSE IF p.kind = "text" /\ p.text # ""
                   THEN <<GroqMessage("user", p.text, "", <<>>)>>
                   ELSE <<>>)
             \o GroqResponseParts(Tail(parts))

GroqToolCalls(parts) ==
    LET calls == SelectSeq(parts, HasFunctionCall)
    IN  [k \in 1..Len(calls) |->
            [id |-> ToolCallId(calls[k], "call_"), type |-> "function",
             name |-> calls[k].name, arguments |-> JsonStringify(calls[k].args)]]

GroqConvertMessage(msg) ==
    IF msg.role = "user"
    THEN IF HasToolResponses(msg) THEN GroqResponseParts(msg.parts)
         ELSE IF TextsOf(msg.parts) # <<>>
              THEN <<GroqMessage("user", JoinLines(TextsOf(msg.parts)), "", <<>>)>>
              ELSE <<>>
    ELSE IF msg.role = "model"
         THEN <<GroqMessage("assistant",
                            IF JoinLines(TextsOf(msg.parts)) = "" THEN "null"
                            ELSE JoinLines(TextsOf(msg.parts)),
                            "", GroqToolCalls(msg.parts))>>
         ELSE <<>>

RECURSIVE GroqConvertAll(_)
GroqConvertAll(history) ==
    IF history = <<>> THEN <<>>
    ELSE GroqConvertMessage(Head(history)) \o GroqConvertAll(Tail(history))

GroqConvertHistory(history) ==
    <<GroqMessage("system", "systemPrompt", "", <<>>)>> \o GroqConvertAll(history)

\* AnthropicProvider.convertHistory: a message has a string content or a list
\* of content blocks
AnthropicMessage(role, text, blocks) == [role |-> role, text |-> text, blocks |-> blocks]
Block(type, id, name, body) == [type |-> type, id |-> id, name |-> name, body |-> body]

RECURSIVE AnthropicResultBlocks(_)
AnthropicResultBlocks(parts) ==
    IF parts = <<>> THEN <<>>
    ELSE LET p == Head(parts)
         IN  (IF HasFunctionResponse(p)
              THEN <<Block("tool_result", ToolResultId(p), "",
                           JsonStringify(p.response))>>
              ELSE IF p.kind = "text" /\ p.text # ""
                   THEN <<Block("text", "", "", p.text)>>
                   ELSE <<>>)
             \o AnthropicResultBlocks(Tail(parts))

RECURSIVE AnthropicModelBlocks(_)
AnthropicModelBlocks(parts) ==
    IF parts = <<>> THEN <<>>
    ELSE LET p == Head(parts)
         IN  (IF p.kind = "text" /\ p.text # "" THEN <<Block("text", "", "", p.text)>>
              ELSE <<>>)
             \o (IF HasFunctionCall(p)
                 THEN <<Block("tool_use", ToolCallId(p, "tool_"), p.name, p.args)>>
                 ELSE <<>>)
             \o AnthropicModelBlocks(Tail(parts))

AnthropicConvertMessage(msg) ==
    IF msg.role = "user"
    THEN IF HasToolResponses(msg)
         THEN <<AnthropicMessage("user", "", AnthropicResultBlocks(msg.parts))>>
         ELSE IF TextsOf(msg.parts) # <<>>
              THEN <<AnthropicMessage("user", JoinLines(TextsOf(msg.parts)), <<>>)>>
              ELSE <<>>
    ELSE IF msg.role = "model" /\ AnthropicModelBlocks(msg.parts) # <<>>
         THEN <<AnthropicMessage("assistant", "", AnthropicModelBlocks(msg.parts))>>
         ELSE <<>>

RECURSIVE AnthropicConvertHistory(_)
AnthropicConvertHistory(history) ==
    IF history = <<>> THEN <<>>
    ELSE AnthropicConvertMessage(Head(history)) \o AnthropicConvertHistory(Tail(history))

Vendors == {"groq", "anthropic"}

\* streamChat of the active adapter begins: it converts the history it was
\* handed; the active adapter may differ from call to call (switch-provider)
ConvertHistory(vendor) ==
    /\ pc = "stream"
    /\ <<wire.op, wire.call>> # <<ops, streamCalls>>
    /\ wire' = [vendor |-> vendor, op |-> ops, call |-> streamCalls,
                messages |-> IF vendor = "groq" THEN GroqConvertHistory(conversationHistory)
                             ELSE AnthropicConvertHistory(conversationHistory)]
    /\ UNCHANGED <<adapter, stream, streamText, forwarded, consumed, assembled, adapterPc,
                   returned, timerVars, adapterError, engineVars, gatewayVars, hostVars>>

\* streamChat settles after it has converted and sent the history
Converted == <<wire.op, wire.call>> = <<ops, streamCalls>>

InitConvert ==
    /\ provider = ProviderLocal
    /\ modelId = ProviderLocal.defaultModel
    /\ Connected(Servers)
    /\ FreshEngine
    /\ NoAdapter
    /\ NoHost

NextConvert ==
    \/ \E userMessage \in {"hello"}, p \in ShortPolicies : SendMessage(userMessage, p)
    \/ \E vendor \in Vendors : ConvertHistory(vendor)
    \/ Converted /\ StreamChatReturn
    \/ \E err \in ProviderErrors : Converted /\ StreamChatThrow(err)
    \/ ToolSettled

SpecConvert == InitConvert /\ [][NextConvert]_vars

\* -------------------------------------------- OllamaProvider.streamChat
\* Chunks of the Ollama stream: choices[0].delta may be missing, and a delta
\* may carry no content
OllamaChunks ==
    { [delta |-> FALSE, content |-> ""],
      [delta |-> TRUE, content |-> ""],
      [delta |-> TRUE, content |-> "Sha"] }

\* the engine's fields other than the clock
engineFields == <<provider, modelId, conversationHistory, requestTimestamps, pc, round,
                  policy, result, callIdx, inflight, responseParts, wakeAt, events,
                  streamCalls, outcome, thrown, providerError, ops, histAtSend,
                  histAtRound, followUpVars>>

\* receivedFirstToken ? IDLE_TIMEOUT_MS : FIRST_TOKEN_TIMEOUT_MS
FirstTokenTimeoutAlways(received) == FirstTokenTimeoutMs
TimeoutFor(received) == IF received THEN IdleTimeoutMs ELSE FirstTokenTimeoutMs

\* resetIdleTimer(): the pending timer is cleared and a new one armed
resetIdleTimer(received, t) == [armed |-> TRUE, due |-> t + TimeoutFor(received)]

\* what the loop took from the stream, with the time it arrived
Arrival(kind, chunk, t) == [kind |-> kind, chunk |-> chunk, at |-> t]

\* await client.chat.completions.create(...) settled: the stream is open and
\* the first-token timer armed, or the rejection leaves streamChat as it is
OllamaCreated(ok) ==
    /\ adapter = "ollama"
    /\ adapterPc = "creating"
    /\ IF ok
       THEN /\ adapterPc' = "reading"
            /\ idleTimer' = resetIdleTimer(receivedFirstToken, now)
            /\ consumed' = Append(consumed, Arrival("open", [delta |-> FALSE, content |-> ""], now))
            /\ adapterError' = adapterError
       ELSE /\ adapterPc' = "threw"
            /\ adapterError' = "other"
            /\ UNCHANGED <<idleTimer, consumed>>
    /\ UNCHANGED <<adapter, stream, streamText, forwarded, assembled, returned, wire,
                   receivedFirstToken, aborted, now, engineFields, gatewayVars, hostVars>>

\* the body of the for await loop for one chunk; only a chunk with content
\* sets receivedFirstToken and resets the timer
OllamaChunk ==
    /\ adapter = "ollama"
    /\ adapterPc = "reading"
    /\ ~aborted
    /\ stream # <<>>
    /\ LET chunk == Head(stream)
           content == chunk.delta /\ chunk.content # ""
       IN  /\ receivedFirstToken' = (receivedFirstToken \/ content)
           /\ streamText' = IF content THEN streamText \o chunk.content ELSE streamText
           /\ forwarded' = IF content THEN Append(forwarded, chunk.content) ELSE forwarded
           /\ idleTimer' = IF content THEN resetIdleTimer(TRUE, now) ELSE idleTimer
           /\ consumed' = Append(consumed, Arrival("chunk", chunk, now))
    /\ stream' = Tail(stream)
    /\ UNCHANGED <<adapter, adapterPc, assembled, returned, wire, aborted, adapterError,
                   now, engineFields, gatewayVars, hostVars>>

\* time passes while streamChat is suspended; a timer that is due fires first
OllamaTick ==
    /\ adapter = "ollama"
    /\ adapterPc \in {"creating", "reading"}
    /\ now + TickMs <= ClockEnd
    /\ idleTimer.armed => now + TickMs <= idleTimer.due
    /\ now' = now + TickMs
    /\ UNCHANGED <<adapterVars, engineFields, gatewayVars, hostVars>>

\* the backend stays silent until the armed timer is due
OllamaSilence ==
    /\ adapter = "ollama"
    /\ idleTimer.armed
    /\ now < idleTimer.due
    /\ now' = idleTimer.due
    /\ UNCHANGED <<adapterVars, engineFields, gatewayVars, hostVars>>

\* the timer's callback: abortController.abort()
OllamaTimerFires ==
    /\ adapter = "ollama"
    /\ idleTimer.armed
    /\ now >= idleTimer.due
    /\ aborted' = TRUE
    /\ idleTimer' = NoTimer
    /\ UNCHANGED <<adapter, stream, streamText, forwarded, consumed, assembled, adapterPc,
                   returned, wire, receivedFirstToken, adapterError, now, engineFields,
                   gatewayVars, hostVars>>

\* the iteration throws: after an abort the catch reports the phase, any
\* other error is rethrown; finally clears the timer
OllamaThrows ==
    /\ adapter = "ollama"
    /\ adapterPc = "reading"
    /\ adapterPc' = "threw"
    /\ adapterError' = IF aborted
                       THEN (IF receivedFirstToken THEN "responding" ELSE "loading")
                       ELSE "other"
    /\ idleTimer' = NoTimer
    /\ UNCHANGED <<adapter, stream, streamText, forwarded, consumed, assembled, returned,
                   wire, receivedFirstToken, aborted, now, engineFields, gatewayVars,
                   hostVars>>

\* the stream ended: finally clears the timer, return { text, functionCalls: [] }
OllamaReturn ==
    /\ adapter = "ollama"
    /\ adapterPc = "reading"
    /\ ~aborted
    /\ stream = <<>>
    /\ adapterPc' = "returned"
    /\ returned' = <<>>
    /\ idleTimer' = NoTimer
    /\ UNCHANGED <<adapter, stream, streamText, forwarded, consumed, assembled, wire,
                   receivedFirstToken, aborted, adapterError, now, engineFields,
                   gatewayVars, hostVars>>

\* streamChat of the Ollama adapter, called on any stream of at most
\* MaxChunks chunks, which the backend may stop sending at any point
InitOllama ==
    /\ provider = ProviderLocal
    /\ modelId = ProviderLocal.defaultModel
    /\ Connected(Servers)
    /\ FreshEngine
    /\ NoHost
    /\ NoVendor
    /\ adapter = "ollama"
    /\ stream \in UNION {[1..n -> OllamaChunks] : n \in 0..MaxChunks}
    /\ streamText = ""
    /\ forwarded = <<>>
    /\ consumed = <<>>
    /\ assembled = <<>>
    /\ adapterPc = "creating"

NextOllama ==
    \/ \E ok \in BOOLEAN : OllamaCreated(ok)
    \/ OllamaChunk
    \/ OllamaTick
    \/ OllamaSilence
    \/ OllamaTimerFires
    \/ OllamaThrows
    \/ OllamaReturn

\* time passes, a due timer fires, and an aborted request makes the pending
\* iteration throw
SpecOllama ==
    /\ InitOllama
    /\ [][NextOllama]_vars
    /\ WF_vars(OllamaSilence)
    /\ WF_vars(OllamaTimerFires)
    /\ WF_vars(OllamaThrows /\ aborted)

\* ------------------------------------------- the admission wait, with timers
\* engines whose provider calls are spread over the clock; a timer that is
\* due fires, and a timer that is armed becomes due
WaitConfigs ==
    { <<ProviderPaced, "steady">>, <<ProviderPaced, "lite">>,
      <<ProviderFree, "pro">>, <<ProviderTiny, "tiny-1">> }

InitWait ==
    /\ \E cfg \in WaitConfigs : provider = cfg[1] /\ modelId = cfg[2]
    /\ Connected(Servers)
    /\ FreshEngine
    /\ NoAdapter
    /\ NoHost

NextWait ==
    \/ \E userMessage \in {"hello"}, p \in PacedPolicies : SendMessage(userMessage, p)
    \/ Tick
    \/ AdvanceToTimer
    \/ Wake
    \/ StreamChatReturn
    \/ ToolSettled

SpecWait ==
    InitWait /\ [][NextWait]_vars /\ WF_vars(AdvanceToTimer) /\ WF_vars(Wake)

\* --------------------------------------------------------- the main process
\* before an engine exists, its fields hold no provider
NoProvider ==
    [id |-> "none", models |-> <<>>, defaultModel |-> NoId,
     rateLimit |-> [rpm |-> 0, windowMs |-> 0]]

\* the models that answer at once, after one tool round, or never stop calling
HostPolicies == {p \in Policies : p.toolRounds \in {0, 1} \/ AlwaysCalls(p)}

\* the chat files on disk when the application starts
StoredChats ==
    [c \in {"c1"} |-> << UserTextMessage("shalom"),
                         FinalMessage([text |-> "shalom", functionCalls |-> <<>>]) >>]

\* model || INFO.defaultModel in the adapters' constructors, and
\* modelId || provider.info.defaultModel in the engine
ModelOrDefault(prov, id) == IF Falsy(id) THEN prov.defaultModel ELSE id

\* createProvider(providerId, apiKey, modelId)
createProvider(prov, id) == [info |-> prov, model |-> ModelOrDefault(prov, id)]

\* initChatEngine(providerId, apiKey, modelId): updateProvider(provider) on
\* the engine there is, else new ChatEngine(provider, mcpManager); neither is
\* handed the model id
initChatEngine(prov, id) ==
    /\ adapterModel' = createProvider(prov, id).model
    /\ provider' = createProvider(prov, id).info
    /\ modelId' = ModelOrDefault(prov, NoId)
    /\ conversationHistory' = IF chatEngine THEN conversationHistory ELSE <<>>
    /\ requestTimestamps' = IF chatEngine THEN requestTimestamps ELSE <<>>
    /\ chatEngine' = TRUE

\* the fields of the engine that its task alone writes
engineTask == <<now, pc, round, policy, result, callIdx, inflight, responseParts, wakeAt,
                events, streamCalls, outcome, thrown, providerError, ops, histAtSend,
                histAtRound, followUpVars>>

\* the request main is handling, or handled last
Current == requests[Len(requests)]
Handling(stage) == requests # <<>> /\ Current.stage = stage

\* main is between two awaits of the send-message handler: chatEngine.sendMessage
\* or generateFollowUps is about to be called, or has just settled
Busy == requests # <<>> /\ Current.stage \in {"sendMessage", "followUps"} /\ pc = "idle"

\* what main keeps of the handler it ran: the engine method it called, the
\* history and ledger before and after, the stored history it loaded, the
\* requests invoked so far, whether there was an engine, its provider
HostCall(handler, op, loaded) ==
    [op |-> op, calls |-> hostView.calls + 1,
     before |-> getHistory(conversationHistory), after |-> getHistory(conversationHistory'),
     ledgerBefore |-> requestTimestamps, ledgerAfter |-> requestTimestamps',
     handler |-> handler, loaded |-> loaded, request |-> Len(requests),
     engine |-> chatEngine, from |-> provider.id]

\* 'switch-provider' with a key configured
SwitchThenClear(cfg) ==
    /\ ~Busy
    /\ hostView.calls < MaxHostCalls
    /\ adapterModel' = createProvider(cfg[1], cfg[2]).model
    /\ provider' = createProvider(cfg[1], cfg[2]).info
    /\ modelId' = ModelOrDefault(cfg[1], NoId)
    /\ conversationHistory' = <<>>
    /\ requestTimestamps' = IF chatEngine THEN requestTimestamps ELSE <<>>
    /\ chatEngine' = TRUE
    /\ UNCHANGED <<engineTask, gatewayVars, adapterVars, hostQuery, signal,
                   currentChatId, chatFiles, mcpManager, rendererVars>>
    /\ hostView' = HostCall("switch-provider", "updateProvider", <<>>)
SwitchProvider(cfg) ==
    /\ ~Busy
    /\ hostView.calls < MaxHostCalls
    /\ initChatEngine(cfg[1], cfg[2])
    /\ UNCHANGED <<engineTask, gatewayVars, adapterVars, hostQuery, signal,
                   currentChatId, chatFiles, mcpManager, rendererVars>>
    /\ hostView' = HostCall("switch-provider", "updateProvider", <<>>)

\* 'load-chat' of a chat that is on disk
LoadChat(chatId) ==
    /\ ~Busy
    /\ hostView.calls < MaxHostCalls
    /\ chatId \in DOMAIN chatFiles
    /\ currentChatId' = chatId
    /\ conversationHistory' = IF chatEngine THEN restoreHistory(chatFiles[chatId])
                              ELSE conversationHistory
    /\ UNCHANGED <<provider, modelId, requestTimestamps, engineTask, gatewayVars,
                   adapterVars, hostQuery, signal, chatEngine, adapterModel, chatFiles,
                   mcpManager, rendererVars>>
    /\ hostView' = HostCall("load-chat", "restoreHistory", chatFiles[chatId])

\* 'clear-chat' and 'new-chat': chatEngine?.clearHistory(); currentChatId = null
ClearChat ==
    /\ ~Busy
    /\ hostView.calls < MaxHostCalls
    /\ conversationHistory' = IF chatEngine THEN <<>> ELSE conversationHistory
    /\ currentChatId' = "null"
    /\ UNCHANGED <<provider, modelId, requestTimestamps, engineTask, gatewayVars,
                   adapterVars, hostQuery, signal, chatEngine, adapterModel, chatFiles,
                   mcpManager, rendererVars>>
    /\ hostView' = HostCall("clear-chat", "clearHistory", <<>>)

\* 'reconnect-mcp' up to the await in initMcp: disconnect() has emptied the
\* gateway mcpManager held, and mcpManager holds a new gateway that is
\* connecting.  The engine keeps the gateway it was constructed with.
ReconnectMcp ==
    /\ ~Busy
    /\ hostView.calls < MaxHostCalls
    /\ mcpManager.state \in {"same", "ready"}
    /\ IF mcpManager.state = "same"
       THEN /\ clients' = {}
            /\ tools' = <<>>
            /\ toolToServer' = RoutingOf(<<>>)
            /\ mcpManager' = [SameManager EXCEPT
                                !.state = IF chatEngine THEN "connecting" ELSE "sameConnecting"]
       ELSE /\ UNCHANGED <<clients, tools, toolToServer>>
            /\ mcpManager' = [SameManager EXCEPT !.state = "connecting"]
    /\ UNCHANGED <<engineVars, connectionErrors, connectPc, connectPromise, disconnectPc,
                   visited, remote, gatewayLog, toolResult, adapterVars, hostQuery, signal,
                   chatEngine, adapterModel, currentChatId, chatFiles, rendererVars>>
    /\ hostView' = HostCall("reconnect-mcp", "none", <<>>)

\* connect() of the new gateway settled with the servers in live connected
McpConnected(live) ==
    /\ mcpManager.state \in {"connecting", "sameConnecting"}
    /\ IF mcpManager.state = "sameConnecting"
       THEN /\ clients' = live
            /\ tools' = CatalogOf(ServerNames, live)
            /\ toolToServer' = RoutingOf(CatalogOf(ServerNames, live))
            /\ mcpManager' = SameManager
       ELSE /\ UNCHANGED <<clients, tools, toolToServer>>
            /\ mcpManager' = [state |-> "ready", clients |-> live,
                              tools |-> CatalogOf(ServerNames, live),
                              toolToServer |-> RoutingOf(CatalogOf(ServerNames, live)),
                              since |-> Len(requests)]
    /\ UNCHANGED <<engineVars, connectionErrors, connectPc, connectPromise, disconnectPc,
                   visited, remote, gatewayLog, toolResult, adapterVars, hostView, hostQuery, signal,
                   chatEngine, adapterModel, currentChatId, chatFiles, rendererVars>>

\* generateChatId(): an id no chat file bears yet
generateChatId(files) ==
    CHOOSE id \in {"chat_" \o ToString(n) : n \in 1..(MaxRequests + 1)} : id \notin DOMAIN files

\* saveCurrentChat(message): nothing without an engine or on an empty
\* history, else the history is written to the file of currentChatId
saveCurrentChat ==
    IF ~chatEngine \/ getHistory(conversationHistory) = <<>>
    THEN UNCHANGED <<currentChatId, chatFiles>>
    ELSE LET id == IF currentChatId = "null" THEN generateChatId(chatFiles) ELSE currentChatId
         IN  /\ currentChatId' = id
             /\ chatFiles' = Put(chatFiles, id, getHistory(conversationHistory))

\* what main sends to the renderer: the chat-stream-end event, and the value
\* the invocation of send-message resolves with
StreamEnd(n) == [channel |-> "chat-stream-end", request |-> n, error |-> FALSE]
IpcResult(n, error) == [channel |-> "result", request |-> n, error |-> error]

Request(text, stage, res) ==
    [text |-> text, stage |-> stage, op |-> ops, ends |-> 0, result |-> res]

\* the handler returns { error }: no chat-stream-end is sent
ReturnError ==
    /\ requests' = [requests EXCEPT ![Len(requests)] =
                       [@ EXCEPT !.stage = "returned", !.result = "error"]]
    /\ ipc' = Append(ipc, IpcResult(Len(requests), TRUE))

\* the end of the try block: getUsageStats(), chat-stream-end, usage-update,
\* saveCurrentChat(message), return { success: true, chatId }
ReturnSuccess ==
    /\ requests' = [requests EXCEPT ![Len(requests)] =
                       [@ EXCEPT !.stage = "returned", !.result = "success", !.ends = @ + 1]]
    /\ ipc' = ipc \o <<StreamEnd(Len(requests)), IpcResult(Len(requests), FALSE)>>
    /\ saveCurrentChat

\* sendMessage() of the renderer and the 'send-message' handler up to its
\* first await: the handler returns an error when there is neither an engine
\* nor a key, else makes sure of an engine and is about to call
\* chatEngine.sendMessage
RendererSendMessage(text, hasKey, cfg) ==
    /\ ~isStreaming
    /\ Len(requests) < MaxRequests
    /\ ops + 2 <= MaxOps
    /\ isStreaming' = TRUE
    /\ IF ~chatEngine /\ ~hasKey
       THEN /\ requests' = Append(requests, Request(text, "returned", "error"))
            /\ ipc' = Append(ipc, IpcResult(Len(requests) + 1, TRUE))
            /\ UNCHANGED <<provider, modelId, conversationHistory, requestTimestamps,
                           chatEngine, adapterModel>>
       ELSE /\ requests' = Append(requests, Request(text, "sendMessage", "none"))
            /\ ipc' = ipc
            /\ IF chatEngine
               THEN UNCHANGED <<provider, modelId, conversationHistory, requestTimestamps,
                                chatEngine, adapterModel>>
               ELSE initChatEngine(cfg[1], cfg[2])
    /\ Len(conversationHistory') <= MaxHistory
    /\ UNCHANGED <<engineTask, gatewayVars, adapterVars, hostView, hostQuery, signal,
                   currentChatId, chatFiles, mcpManager>>

\* chatEngine.sendMessage(message, ...) called by the handler
HandlerSendMessage(p) ==
    /\ Handling("sendMessage")
    /\ ops = Current.op
    /\ SendMessage(Current.text, p)

\* chatEngine.sendMessage settled: the catch block returns the error; else
\* hasCapacityForFollowUps() decides between generateFollowUps() and the end
\* of the try block
SendMessageSettled ==
    LET pruned == Prune(requestTimestamps, now, provider.rateLimit.windowMs)
    IN  /\ Handling("sendMessage")
        /\ ops = Current.op + 1
        /\ pc = "idle"
        /\ IF outcome = "rejected"
           THEN /\ ReturnError
                /\ UNCHANGED <<requestTimestamps, currentChatId, chatFiles>>
           ELSE /\ requestTimestamps' = pruned
                /\ IF Len(pruned) < followUpBudget(getEffectiveRpm(provider, modelId))
                   THEN /\ requests' = [requests EXCEPT ![Len(requests)].stage = "followUps"]
                        /\ UNCHANGED <<ipc, currentChatId, chatFiles>>
                   ELSE ReturnSuccess
        /\ UNCHANGED <<provider, modelId, conversationHistory, engineTask, gatewayVars,
                       adapterVars, hostView, hostQuery, signal, chatEngine, adapterModel,
                       mcpManager, isStreaming>>

\* chatEngine.generateFollowUps() called by the handler
HandlerGenerateFollowUps ==
    /\ Handling("followUps")
    /\ ops = Current.op + 1
    /\ GenerateFollowUps

\* generateFollowUps settled (.catch turns a rejection into []): the end of
\* the try block
FollowUpsSettled ==
    /\ Handling("followUps")
    /\ ops = Current.op + 2
    /\ pc = "idle"
    /\ requestTimestamps' = Prune(requestTimestamps, now, provider.rateLimit.windowMs)
    /\ ReturnSuccess
    /\ UNCHANGED <<provider, modelId, conversationHistory, engineTask, gatewayVars,
                   adapterVars, hostView, hostQuery, signal, chatEngine, adapterModel,
                   mcpManager, isStreaming>>

\* isStreaming once the invocation of send-message resolved with msg
StuckAfterResult(msg) == isStreaming
StreamingAfterResult(msg) == IF msg.error THEN FALSE ELSE isStreaming

\* api.onChatStreamEnd of the renderer
OnChatStreamEnd ==
    /\ ipc # <<>>
    /\ Head(ipc).channel = "chat-stream-end"
    /\ isStreaming' = FALSE
    /\ ipc' = Tail(ipc)
    /\ UNCHANGED <<engineVars, gatewayVars, adapterVars, hostView, hostQuery, signal,
                   chatEngine, adapterModel, currentChatId, chatFiles, mcpManager, requests>>

\* the renderer after `await api.sendMessage(text, responseLength)`
OnResult ==
    /\ ipc # <<>>
    /\ Head(ipc).channel = "result"
    /\ isStreaming' = StreamingAfterResult(Head(ipc))
    /\ ipc' = Tail(ipc)
    /\ UNCHANGED <<engineVars, gatewayVars, adapterVars, hostView, hostQuery, signal,
                   chatEngine, adapterModel, currentChatId, chatFiles, mcpManager, requests>>

\* the application is ready: initMcp() settled, no engine was made yet
InitMain ==
    /\ provider = NoProvider
    /\ modelId = NoId
    /\ \E live \in ConnectOutcomes : Connected(live)
    /\ FreshEngine
    /\ NoAdapter
    /\ hostView = NoView
    /\ hostQuery = NoQuery
    /\ signal = NoSignal
    /\ chatEngine = FALSE
    /\ adapterModel = NoId
    /\ currentChatId = "null"
    /\ chatFiles = StoredChats
    /\ mcpManager = SameManager
    /\ isStreaming = FALSE
    /\ requests = <<>>
    /\ ipc = <<>>

\* the providers whose limits leave no room for follow-ups after a request
\* (Math.floor(rpm * 0.6) <= 1), and the models that stop after a tool round
SlowConfigs == { <<ProviderFree, "pro">>, <<ProviderTiny, "tiny-1">> }
BriefPolicies == {p \in Policies : p.toolRounds \in {0, 1}}

\* a request of the renderer up to the end of chatEngine.sendMessage
SendMessageRequest(configs, policies) ==
    \/ \E text \in {"hello"}, hasKey \in BOOLEAN, cfg \in configs :
          RendererSendMessage(text, hasKey, cfg)
    \/ \E p \in policies : HandlerSendMessage(p)
    \/ AdvanceToTimer
    \/ Wake
    \/ StreamChatReturn
    \/ \E err \in ProviderErrors : StreamChatThrow(err)
    \/ ToolSettled
    \/ SendMessageSettled
    \/ OnChatStreamEnd
    \/ OnResult

\* requests between which the user switches the provider, opens a chat or
\* clears the chat
NextMain ==
    \/ SendMessageRequest(SlowConfigs, BriefPolicies)
    \/ \E cfg \in SlowConfigs : SwitchProvider(cfg)
    \/ \E chatId \in DOMAIN chatFiles : LoadChat(chatId)
    \/ ClearChat

SpecMain == InitMain /\ [][NextMain]_vars

\* requests before or between which the user picks the provider and
\* reconnects the tool servers
NextReconnect ==
    \/ SendMessageRequest({<<ProviderFree, "pro">>}, {p \in Policies : p.toolRounds = 2})
    \/ SwitchProvider(<<ProviderFree, "pro">>)
    \/ ReconnectMcp
    \/ \E live \in ConnectOutcomes : McpConnected(live)

SpecReconnect == InitMain /\ [][NextReconnect]_vars

\* requests with their follow-ups; what the provider is asked, it answers,
\* and timers fire
NextRenderer ==
    \/ SendMessageRequest({<<ProviderLocal, "llama">>, <<ProviderTiny, "tiny-1">>}, HostPolicies)
    \/ HandlerGenerateFollowUps
    \/ \E reply \in GenerateReplies : GenerateOnceReturn(reply)
    \/ \E err \in ProviderErrors : GenerateOnceThrow(err)
    \/ BackoffWake
    \/ FollowUpsSettled

SpecRenderer ==
    /\ InitMain
    /\ [][NextRenderer]_vars
    /\ WF_vars(\E p \in HostPolicies : HandlerSendMessage(p))
    /\ WF_vars(AdvanceToTimer)
    /\ WF_vars(Wake)
    /\ WF_vars(StreamChatReturn)
    /\ WF_vars(ToolSettled)
    /\ WF_vars(SendMessageSettled)
    /\ WF_vars(HandlerGenerateFollowUps)
    /\ WF_vars(\E reply \in GenerateReplies : GenerateOnceReturn(reply))
    /\ WF_vars(BackoffWake)
    /\ WF_vars(FollowUpsSettled)
    /\ WF_vars(OnChatStreamEnd)
    /\ WF_vars(OnResult)

\* ------------------------------------------------------------ properties
\* requests of the ledger that lie in the window ending now
WindowUsage ==
    Cardinality({i \in 1..Len(requestTimestamps) :
                    requestTimestamps[i] > now - provider.rateLimit.windowMs})

ActiveRpm ==
    IF \E i \in 1..Len(provider.models) :
           provider.models[i].id = modelId /\ provider.models[i].hasRpm
    THEN LET i == CHOOSE k \in 1..Len(provider.models) :
                      /\ provider.models[k].id = modelId
                      /\ \A j \in 1..(k - 1) : provider.models[j].id # modelId
         IN  IF provider.models[i].hasRpm THEN provider.models[i].rpm
             ELSE provider.rateLimit.rpm
    ELSE provider.rateLimit.rpm

IsCallPart(part) == part.kind = "functionCall"
IsResponsePart(part) == part.kind = "functionResponse"
CallsIn(m) == SelectSeq(m.parts, IsCallPart)
IsCallTurn(m) == m.role = "model" /\ CallsIn(m) # <<>>
Appended == Len(conversationHistory) - Len(histAtSend)
Positions(type, status) ==
    {j \in 1..Len(events) : events[j].type = type /\ events[j].status = status}
SameCall(e, f) == e.name = f.name /\ e.round = f.round /\ e.idx = f.idx

\* C1 as stated: the window of the pruned ledger never holds R or more
\* timestamps, R the effective RPM of the active model.
C1_FewerThanRpm == WindowUsage < ActiveRpm

\* C1 (amended): the window of the pruned ledger never holds more than
\* max(1, R - 1) timestamps; so fewer than R whenever R >= 2, and at most
\* one when R = 1.
C1_AdmissionInvariant ==
    /\ ActiveRpm >= 2 => WindowUsage < ActiveRpm
    /\ ActiveRpm = 1 => WindowUsage <= 1

C1_Witness ==
    /\ pc = "sleep"
    /\ round >= 1
    /\ ActiveRpm >= 2
    /\ WindowUsage = ActiveRpm - 1

\* C2: every model message with functionCall parts c1..cn that has a
\* successor in the history is followed by one role-user message of exactly
\* n functionResponse parts, the i-th carrying the name and call id of ci;
\* a call turn is the last message only while its calls are being executed.
C2_PerCallResponse ==
    \A i \in 1..Len(conversationHistory) :
        IsCallTurn(conversationHistory[i]) =>
            IF i = Len(conversationHistory) THEN pc = "tool"
            ELSE LET calls == CallsIn(conversationHistory[i])
                     next == conversationHistory[i + 1]
                 IN  /\ next.role = "user"
                     /\ Len(next.parts) = Len(calls)
                     /\ \A k \in 1..Len(calls) :
                            /\ IsResponsePart(next.parts[k])
                            /\ next.parts[k].name = calls[k].name
                            /\ next.parts[k].callId = calls[k].id

C2_Witness ==
    \E i \in 1..(Len(conversationHistory) - 1) :
        /\ IsCallTurn(conversationHistory[i])
        /\ Len(CallsIn(conversationHistory[i])) = 3
        /\ \E k, l \in 1..3 :
              /\ conversationHistory[i + 1].parts[k].response.isError
              /\ conversationHistory[i + 1].parts[k].callId # NoId
              /\ ~conversationHistory[i + 1].parts[l].response.isError

\* C3: a sendMessage answered by a model that asks for a tool call in every
\* reply never invokes streamChat more than 10 times, and has invoked it
\* exactly 10 times when it returns.
C3_LoopBound ==
    AlwaysCalls(policy) =>
        /\ streamCalls <= 10
        /\ (pc = "idle" /\ outcome = "resolved") => streamCalls = 10

C3_Witness ==
    /\ AlwaysCalls(policy)
    /\ outcome = "resolved"
    /\ streamCalls = 10
    /\ Cardinality(Positions("streamChat", "")) = 10

\* C4: when the first reply has no function call, sendMessage returns after
\* one streamChat call, having appended the user text message and one model
\* text message, and without any onToolStatus callback.
C4_PlainAnswer ==
    (outcome = "resolved" /\ Reply(policy, 0).functionCalls = <<>>) =>
        /\ streamCalls = 1
        /\ Appended = 2
        /\ conversationHistory =
              histAtSend \o << [role |-> "user", parts |-> <<[kind |-> "text", text |-> "hello"]>>],
                               [role |-> "model",
                                parts |-> <<[kind |-> "text", text |-> Reply(policy, 0).text]>>] >>
        /\ \A j \in 1..Len(events) : events[j].type # "status"

C4_Witness ==
    /\ outcome = "resolved"
    /\ Reply(policy, 0).functionCalls = <<>>
    /\ Len(histAtSend) > 0
    /\ Appended = 2

\* C5: when streamChat throws in round k, sendMessage rejects with the
\* history it had when round k began: the user message and the two messages
\* of each earlier round, and nothing of round k.
C5_FailureAtomicity ==
    outcome = "rejected" =>
        /\ conversationHistory = histAtRound
        /\ Appended = 1 + 2 * round
        /\ \A i \in 1..round :
              /\ IsCallTurn(conversationHistory[Len(histAtSend) + 2 * i])
              /\ conversationHistory[Len(histAtSend) + 2 * i + 1].role = "user"

C5_Witness ==
    /\ outcome = "rejected"
    /\ round >= 2
    /\ Appended = 1 + 2 * round

\* the functionResponse parts produced so far by this sendMessage
ResponsesSoFar ==
    LET RECURSIVE Flat(_)
        Flat(i) == IF i > Len(conversationHistory) THEN <<>>
                   ELSE SelectSeq(conversationHistory[i].parts, IsResponsePart) \o Flat(i + 1)
    IN  Flat(Len(histAtSend) + 1) \o responseParts

Contains(pieces, str) == \E k \in 1..Len(pieces) : pieces[k] = str

\* C6 as stated: a rejected callTool never rejects sendMessage: the step that
\* takes the rejection appends a functionResponse whose error text is
\* non-empty and contains the tool name, then starts the next call of the
\* round or, after the last call, goes on to the next provider call.
C6_AlwaysNextProviderCall ==
    [][ (pc = "tool" /\ inflight.state = "rejected" /\ events' # events) =>
          LET n == Len(result.functionCalls)
              made == ResponsesSoFar'
          IN  /\ outcome' # "rejected"
              /\ thrown' = thrown
              /\ made # <<>>
              /\ made[Len(made)].response.isError
              /\ made[Len(made)].response.error # <<>>
              /\ Contains(made[Len(made)].response.error, result.functionCalls[callIdx].name)
              /\ IF callIdx < n
                 THEN pc' = "tool" /\ callIdx' = callIdx + 1
                 ELSE /\ conversationHistory'[Len(conversationHistory')].role = "user"
                      /\ pc' \in {"stream", "sleep"} ]_vars

\* C6 (amended): as above, except that after the last call of the 10th round
\* there is no further provider call: sendMessage returns normally.
C6_ToolFailureAbsorbed ==
    [][ (pc = "tool" /\ inflight.state = "rejected" /\ events' # events) =>
          LET n == Len(result.functionCalls)
              made == ResponsesSoFar'
          IN  /\ outcome' # "rejected"
              /\ thrown' = thrown
              /\ made # <<>>
              /\ made[Len(made)].response.isError
              /\ made[Len(made)].response.error # <<>>
              /\ Contains(made[Len(made)].response.error, result.functionCalls[callIdx].name)
              /\ IF callIdx < n
                 THEN pc' = "tool" /\ callIdx' = callIdx + 1
                 ELSE /\ conversationHistory'[Len(conversationHistory')].role = "user"
                      /\ IF round + 1 < 10 THEN pc' \in {"stream", "sleep"}
                         ELSE pc' = "idle" /\ outcome' = "resolved" ]_vars

C6_Witness ==
    /\ streamCalls >= 2
    /\ \E i \in (Len(histAtSend) + 1)..Len(conversationHistory) :
          LET parts == conversationHistory[i].parts
          IN  \E k, l \in 1..Len(parts) :
                 /\ k < l
                 /\ IsResponsePart(parts[k]) /\ parts[k].response.isError
                 /\ IsResponsePart(parts[l]) /\ ~parts[l].response.isError

\* C7: every callTool invocation is immediately preceded by the 'calling'
\* callback for that call and every settlement is immediately followed by
\* its 'done' callback, on success and on failure; no call gets either
\* callback twice, and no callback is made for anything but a call.
C7_StatusTwicePerCall ==
    /\ \A j \in 1..Len(events) :
          /\ events[j].type = "callTool" =>
                /\ j > 1
                /\ events[j - 1].type = "status" /\ events[j - 1].status = "calling"
                /\ SameCall(events[j - 1], events[j])
          /\ events[j].type = "settled" =>
                /\ j < Len(events)
                /\ events[j + 1].type = "status" /\ events[j + 1].status = "done"
                /\ SameCall(events[j + 1], events[j])
          /\ (events[j].type = "status" /\ events[j].status = "calling") =>
                /\ j < Len(events)
                /\ events[j + 1].type = "callTool"
          /\ (events[j].type = "status" /\ events[j].status = "done") =>
                /\ j > 1
                /\ events[j - 1].type = "settled"
          /\ events[j].type = "status" => events[j].status \in {"calling", "done"}
    /\ \A st \in {"calling", "done"} :
          Cardinality({<<events[j].round, events[j].idx>> : j \in Positions("status", st)})
             = Cardinality(Positions("status", st))
    /\ Cardinality(Positions("status", "calling")) =
          Len(ResponsesSoFar) + (IF pc = "tool" THEN 1 ELSE 0)
    /\ Cardinality(Positions("status", "done")) = Len(ResponsesSoFar)

C7_Witness ==
    /\ pc = "idle"
    /\ \E j, k \in 1..Len(events) :
          /\ events[j].type = "settled" /\ events[j].status = "rejected"
          /\ events[j + 1].type = "status" /\ events[j + 1].status = "done"
          /\ events[k].type = "settled" /\ events[k].status = "resolved"
          /\ events[k + 1].type = "status" /\ events[k + 1].status = "done"

\* C8: provider calls and tool calls never overlap: a callTool or streamChat
\* invocation happens only when every earlier callTool has settled and had
\* its 'done' callback; the calls of a round are invoked in the order the
\* model returned them, and the rounds in increasing order.
C8_Sequential ==
    LET IsInvocation(e) == e.type = "callTool"
        IsRound(e) == e.type = "streamChat"
        invoked == SelectSeq(events, IsInvocation)
        rounds == SelectSeq(events, IsRound)
    IN  /\ \A j \in 1..Len(events) :
              events[j].type = "callTool" =>
                 \/ j = Len(events) /\ pc = "tool"
                 \/ /\ j + 2 <= Len(events)
                    /\ events[j + 1].type = "settled" /\ SameCall(events[j + 1], events[j])
                    /\ events[j + 2].type = "status" /\ events[j + 2].status = "done"
                    /\ SameCall(events[j + 2], events[j])
        /\ \A k \in 1..(Len(invoked) - 1) :
              \/ invoked[k].round < invoked[k + 1].round
              \/ invoked[k].round = invoked[k + 1].round /\ invoked[k + 1].idx = invoked[k].idx + 1
        /\ \A k \in 1..Len(invoked) :
              (k = 1 \/ invoked[k - 1].round < invoked[k].round) => invoked[k].idx = 1
        /\ \A k \in 1..(Len(rounds) - 1) : rounds[k + 1].round = rounds[k].round + 1
        /\ \A j \in 1..Len(events) :
              (events[j].type = "callTool" /\ events[j].round = round /\ pc = "tool") =>
                 /\ events[j].idx \in 1..callIdx
                 /\ events[j].name = result.functionCalls[events[j].idx].name
        /\ pc = "stream" => events[Len(events)].type = "streamChat"

C8_Witness ==
    /\ pc = "tool"
    /\ callIdx = 3
    /\ round = 1
    /\ Cardinality(Positions("callTool", "")) = 6

\* C9: when every one of the 10 rounds returned function calls, sendMessage
\* returns normally; it has appended the user message and 10 pairs of call
\* turn and tool-response message, and the last message is the role-user
\* tool-response message of round 10, not a model text message.
C9_RoundCeiling ==
    (pc = "idle" /\ outcome # "rejected" /\ outcome # "none" /\ round = 10) =>
        LET last == conversationHistory[Len(conversationHistory)]
        IN  /\ outcome = "resolved"
            /\ Appended = 21
            /\ last.role = "user"
            /\ last.parts # <<>>
            /\ \A k \in 1..Len(last.parts) : IsResponsePart(last.parts[k])
            /\ IsCallTurn(conversationHistory[Len(conversationHistory) - 1])

C9_Witness ==
    /\ pc = "idle"
    /\ outcome = "resolved"
    /\ round = 10
    /\ events[Len(events)].type = "status"
    /\ events[Len(events)].round = 9

\* C10: when streamChat throws, sendMessage rejects with the very error the
\* provider threw, status included; the failed call is the last provider
\* call of that sendMessage, and the error is not turned into a model
\* message.
C10_ErrorPropagates ==
    outcome = "rejected" =>
        /\ thrown = providerError
        /\ thrown \in ProviderErrors
        /\ pc \notin {"stream", "sleep", "tool"}
        /\ streamCalls = round + 1
        /\ events[Len(events)].type = "streamChat"
        /\ events[Len(events)].round = round
        /\ conversationHistory[Len(conversationHistory)].role = "user"

C10_Witness ==
    /\ outcome = "rejected"
    /\ thrown.status = 429
    /\ round = 1
    /\ pc = "idle"

\* ---------------------------------------------------------- follow-ups
GenEntries(type) == {j \in 1..Len(genLog) : genLog[j].type = type}
LastGen == genLog[Len(genLog)]
FollowUpFailed ==
    /\ genLog # <<>>
    /\ \/ LastGen.type = "error"
       \/ LastGen.type = "reply" /\ ~LastGen.parsed

\* the values of the string elements of the arrays the model may reply with
StringValues ==
    UNION { {r.items[i].s : i \in {k \in 1..Len(r.items) : r.items[k].isString}} :
            r \in GenerateReplies }

\* C19: generateFollowUps never rejects; whenever its task is not running it
\* has resolved (or was never called), to a list of at most 3 elements, all
\* strings, and to the empty list after an unparsable reply, after an error
\* of generateOnce (rate limit or other) and on a history without text.
C19_FollowUpsNeverThrow ==
    /\ fuOutcome # "rejected"
    /\ fuOutcome = "pending" => pc \in {"gen", "fuSleep", "backoff"}
    /\ fuOutcome = "resolved" =>
          /\ Len(followUps) <= 3
          /\ \A k \in 1..Len(followUps) : followUps[k] \in StringValues
          /\ FollowUpFailed => followUps = <<>>
          /\ prompt = <<>> => followUps = <<>> /\ genLog = <<>>

C19_Witness ==
    /\ fuOutcome = "resolved"
    /\ Cardinality(GenEntries("call")) = 3
    /\ LastGen.type = "error"
    /\ LastGen.status = 429
    /\ followUps = <<>>

\* C20: generateOnce is invoked at most 3 times by one generateFollowUps;
\* every invocation but the first directly follows an error of status 429,
\* no sooner than 5 s after it if it was the first failure and 10 s if it
\* was the second; after a reply or an error of another status the
\* operation has ended.
C20_RetryOnlyOn429 ==
    /\ Cardinality(GenEntries("call")) <= 3
    /\ \A j \in 2..Len(genLog) :
          genLog[j].type = "call" =>
             /\ genLog[j - 1].type = "error"
             /\ genLog[j - 1].status = 429
             /\ genLog[j].at - genLog[j - 1].at
                   >= 5000 * Cardinality({i \in GenEntries("error") : i < j})
    /\ (genLog # <<>> /\ (LastGen.type = "reply"
                           \/ (LastGen.type = "error" /\ LastGen.status # 429)))
          => pc \notin {"gen", "fuSleep", "backoff"} /\ fuOutcome = "resolved"

C20_Witness ==
    /\ Len(genLog) = 6
    /\ genLog[2].status = 429
    /\ genLog[4].status = 429
    /\ genLog[5].at - genLog[4].at >= 10000
    /\ LastGen.type = "reply"
    /\ followUps # <<>>

\* ------------------------------------------------------------- history
\* C11: whenever the host called restoreHistory(getHistory()), whatever the
\* history was (after any sendMessage, clearHistory and restoreHistory
\* before it), the getHistory() that followed returned
\* the messages the first one returned, and the ledger was the same after
\* as before.
C11_RoundTrip ==
    hostView.op = "roundTrip" =>
        /\ hostView.after = hostView.before
        /\ hostView.ledgerAfter = hostView.ledgerBefore

C11_Witness ==
    /\ hostView.op = "roundTrip"
    /\ hostView.calls = 2
    /\ Len(hostView.before) >= 3
    /\ \E i \in 1..Len(hostView.before) : IsCallTurn(hostView.before[i])
    /\ hostView.ledgerBefore # <<>>
    /\ conversationHistory = hostView.before

\* ------------------------------------------------------------ streaming
RECURSIVE Concat(_)
Concat(strs) == IF strs = <<>> THEN "" ELSE Head(strs) \o Concat(Tail(strs))

RECURSIVE Flatten(_)
Flatten(seqs) == IF seqs = <<>> THEN <<>> ELSE Head(seqs) \o Flatten(Tail(seqs))

\* the text a chunk of the stream bears
ChunkText(c) ==
    IF adapter \in OpenAiAdapters THEN (IF c.delta THEN c.content ELSE "") ELSE c.text
BearsText(c) == ChunkText(c) # ""
HasText(part) == part.text # ""
TextBearing == SelectSeq(consumed, BearsText)

\* the units of text of a chunk: the chunk's content in the Groq stream, the
\* text of each text-bearing part in the Gemini stream (the chunk's text when
\* it has no parts)
Pieces(c) ==
    IF adapter = "gemini" /\ c.hasParts
    THEN [k \in 1..Len(SelectSeq(c.parts, HasText)) |-> SelectSeq(c.parts, HasText)[k].text]
    ELSE IF BearsText(c) THEN <<ChunkText(c)>> ELSE <<>>

HostLog == gatewayLog["host"]
LastHostCall == HostLog[Len(HostLog)]

\* C13: a callTool(name, args) made when no server is registered for name
\* rejects with "Unknown tool: <name>"; made when the registered server has
\* no client it rejects with "Server not connected: <server>"; in both cases
\* no server receives anything.  Otherwise the registered server, and only
\* it, receives the call with the same name and arguments, and the promise is
\* the server's own answer (its result, or its rejection), unchanged.
C13_CallToolRouting ==
    [][ (Len(gatewayLog'["host"]) > Len(HostLog)
           /\ gatewayLog'["host"][Len(gatewayLog'["host"])].type = "callTool()")
        => LET call == gatewayLog'["host"][Len(gatewayLog'["host"])]
               name == call.detail
               delivered == {s \in Servers : gatewayLog'[s] # gatewayLog[s]}
           IN  IF name \notin DOMAIN toolToServer
               THEN /\ toolResult'.state = "rejected"
                    /\ toolResult'.message = "Unknown tool: " \o name
                    /\ delivered = {}
               ELSE IF toolToServer[name] \notin clients
               THEN /\ toolResult'.state = "rejected"
                    /\ toolResult'.message = "Server not connected: " \o toolToServer[name]
                    /\ delivered = {}
               ELSE /\ delivered = {toolToServer[name]}
                    /\ gatewayLog'[toolToServer[name]] =
                          Append(gatewayLog[toolToServer[name]],
                                 LogEntry("received", toolToServer[name], name, call.args, TRUE))
                    /\ toolResult' = RemoteCall(toolToServer[name], name, call.args)
      ]_vars

C13_Witness ==
    /\ HostLog # <<>>
    /\ LastHostCall.type = "callTool()"
    /\ LastHostCall.detail = "search"
    /\ toolResult.state = "rejected"
    /\ toolResult.message = "Server not connected: sefaria-texts"
    /\ \A s \in Servers : Logged(s, "received") = {}

Transports(s) == SelectSeq(gatewayLog[s], LAMBDA e : e.type = "transport")
Attempt(s, k) == <<Transports(s)[k].detail, Transports(s)[k].ok>>
NoDisconnect == Logged("host", "disconnect()") = {}
Status == getConnectionStatus(clients, connectionErrors)
Occurrences(seq, x) == Cardinality({i \in 1..Len(seq) : seq[i] = x})
FailedNames == [i \in 1..Len(Status.failed) |-> Status.failed[i].name]

\* C14: for every server, Streamable HTTP is attempted first and SSE only
\* after Streamable HTTP failed, and nothing after a success or two failures;
\* as long as disconnect() was not called, a server whose callback is over
\* is missing from the clients only if both transports failed (and then the
\* error of that is recorded), and is among the clients as soon as one of
\* its transports connected, whatever became of the other server; the
\* promise of connect() is never rejected.
C14_IsolationAndFallback ==
    /\ \A s \in Servers :
          /\ Len(Transports(s)) <= 2
          /\ Len(Transports(s)) >= 1 => Transports(s)[1].detail = "streamable"
          /\ Len(Transports(s)) = 2 => Attempt(s, 1) = <<"streamable", FALSE>>
                                        /\ Transports(s)[2].detail = "sse"
          /\ (NoDisconnect /\ connectPc[s] = "done" /\ s \notin clients)
                => /\ Len(Transports(s)) = 2
                   /\ Attempt(s, 2) = <<"sse", FALSE>>
                   /\ s \in DOMAIN connectionErrors
                   /\ connectionErrors[s] = "Both transports failed"
          /\ (NoDisconnect /\ \E k \in 1..Len(Transports(s)) : Transports(s)[k].ok)
                => s \in clients
    /\ connectPromise # "rejected"
    /\ connectPromise = "resolved" => \A s \in Servers : connectPc[s] = "done"

C14_Witness ==
    /\ connectPromise = "resolved"
    /\ NoDisconnect
    /\ clients = {"sefaria-developers"}
    /\ Len(Transports("sefaria-texts")) = 2
    /\ connectionErrors["sefaria-texts"] = "Both transports failed"
    /\ Len(Transports("sefaria-developers")) = 2
    /\ Attempt("sefaria-developers", 2) = <<"sse", TRUE>>

\* C15: at the step at which disconnect() returns, close() has been called
\* and has settled, resolved or rejected, on every client the map held, and
\* the step leaves no routing state: no client, an empty catalog, an empty
\* routing table, so that callTool rejects with "Unknown tool" for every
\* name and getConnectionStatus() lists no server as connected.
C15_DisconnectClears ==
    [][ (disconnectPc # "done" /\ disconnectPc' = "done")
        => /\ \A s \in clients : \E j \in 1..Len(gatewayLog'[s]) : gatewayLog'[s][j].type = "close"
           /\ clients' = {}
           /\ listAllTools(tools') = <<>>
           /\ DOMAIN toolToServer' = {}
           /\ \A name \in HostToolNames, args \in HostToolArgs :
                 /\ callTool(toolToServer', clients', name, args).state = "rejected"
                 /\ callTool(toolToServer', clients', name, args).message = "Unknown tool: " \o name
           /\ getConnectionStatus(clients', connectionErrors').connected = <<>>
      ]_vars

C15_Witness ==
    /\ disconnectPc = "done"
    /\ Len(visited) = 2
    /\ \A s \in Servers : Logged(s, "close") # {}
    /\ \E j \in Logged(visited[1], "close") : ~gatewayLog[visited[1]][j].ok
    /\ \E s \in Servers : \E j \in Logged(s, "listTools") : gatewayLog[s][j].ok
    /\ clients = {}
    /\ tools = <<>>

\* C16: getConnectionStatus() names every configured server exactly once,
\* under connected or under failed; a failed entry of a server for which a
\* connection error was recorded carries the error recorded last.
C16_StatusPartition ==
    \A s \in Servers :
        /\ Occurrences(Status.connected, s) + Occurrences(FailedNames, s) = 1
        /\ \A i \in 1..Len(Status.failed) :
              (Status.failed[i].name = s /\ Logged(s, "error") # {})
                 => Status.failed[i].error =
                      gatewayLog[s][CHOOSE j \in Logged(s, "error") :
                                       \A k \in Logged(s, "error") : k <= j].detail

C16_Witness ==
    /\ connectPromise = "resolved"
    /\ Status.connected = <<"sefaria-texts">>
    /\ Len(Status.failed) = 1
    /\ Status.failed[1] = [name |-> "sefaria-developers", error |-> "Both transports failed"]

\* the descriptors the servers in live advertise
Advertised(live) ==
    UNION { {[name |-> remote[s].tools[i], serverName |-> s] : i \in 1..Len(remote[s].tools)} :
            s \in {t \in live : remote[t].hasTools} }
CatalogSet == {tools[i] : i \in 1..Len(tools)}

\* C17 as stated: once connect() has settled (and disconnect() was not
\* called) the catalog holds exactly the tools advertised by the connected
\* servers that declare the tools capability; every entry belongs to a
\* connected server, and a server without the capability is connected but
\* has no entry.
C17_CatalogIsUnion ==
    (connectPromise = "resolved" /\ NoDisconnect)
      => /\ CatalogSet = Advertised(clients)
         /\ \A i \in 1..Len(tools) : tools[i].serverName \in clients
         /\ \A s \in Servers :
               (\E k \in 1..Len(Transports(s)) : Transports(s)[k].ok) => s \in clients

\* C18 as stated: no two descriptors of the catalog have the same name, and
\* a name is routed to the server of its first descriptor in the catalog,
\* the server that registered it first.
C18_FirstRegisteredWins ==
    /\ \A i, j \in 1..Len(tools) : tools[i].name = tools[j].name => i = j
    /\ \A name \in DOMAIN toolToServer :
          \A i \in 1..Len(tools) :
              (tools[i].name = name /\ \A j \in 1..(i - 1) : tools[j].name # name)
                 => toolToServer[name] = tools[i].serverName

\* ---------------------------------------------------------------- C21
\* C21 as stated: hasCapacityForFollowUps() answers true exactly when the
\* pruned usage is strictly below 60% of the effective rpm, that is when
\* usage * 10 < rpm * 6, whatever the rpm.
C21_BelowSixtyPercent ==
    hostQuery.op = "hasCapacityForFollowUps" =>
        (hostQuery.answer <=> hostQuery.used * 10 < hostQuery.limit * 6)

\* ---------------------------------------------------------------- C22
\* the first sendMessage of an engine with effective rpm 5 and a window of
\* one minute: its ledger was empty when it began
PacedFirstSend ==
    /\ ActiveRpm = 5
    /\ provider.rateLimit.windowMs = 60000
    /\ ops = 1

\* the timestamp of the first call, recorded at StartMs, has left the window
FirstLeftWindow == StartMs <= now - provider.rateLimit.windowMs

\* C22 as stated: five provider calls are admitted without suspension, and
\* the sixth is admitted only after the first call's timestamp has left the
\* window.
C22_FiveThenSuspend ==
    PacedFirstSend =>
        /\ pc = "sleep" => streamCalls >= 5
        /\ (streamCalls < 5 \/ (streamCalls = 5 /\ pc # "sleep")) => now = StartMs
        /\ streamCalls >= 6 => FirstLeftWindow

\* C22 (amended): four provider calls are admitted without suspension (no
\* timer runs, the clock has not moved), the task suspends before the fifth,
\* and the fifth is admitted only after the first call's timestamp has left
\* the window.
C22_FourThenSuspend ==
    PacedFirstSend =>
        /\ pc = "sleep" => streamCalls >= 4
        /\ (streamCalls < 4 \/ (streamCalls = 4 /\ pc # "sleep")) => now = StartMs
        /\ streamCalls >= 5 => FirstLeftWindow

C22_Witness ==
    /\ PacedFirstSend
    /\ streamCalls = 5
    /\ pc = "stream"
    /\ now = StartMs + 60000 + MarginMs
    /\ requestTimestamps = <<>>

\* ---------------------------------------------------------------- C23
\* the cancellation fired while the streamChat call still awaited was in flight
CancelledInFlight ==
    /\ signal.fired
    /\ signal.op = ops
    /\ signal.call = streamCalls
    /\ pc = "stream"

\* C23: once the cancellation signal has fired while sendMessage awaits
\* streamChat, the request is aborted: sendMessage leaves that await settled
\* (returned or thrown) and without the reply of the stream, which it did not
\* wait for.
C23_CancelAborts ==
    [][(CancelledInFlight /\ pc' # "stream") =>
           /\ pc' = "idle"
           /\ outcome' \in {"resolved", "rejected"}
           /\ conversationHistory' = conversationHistory]_vars

\* ---------------------------------------------------------------- C24
\* a step in which waitForCapacity returns, and one in which it arms its timer
Granted == pc # "stream" /\ pc' = "stream"
Suspended == pc' = "sleep" /\ (pc # "sleep" \/ wakeAt' # wakeAt)

\* C24: getUsageStats reports as limit, and waitForCapacity admits against,
\* the rpm override of the active model if the model list has the active
\* model id with an override, and the provider's rateLimit.rpm otherwise,
\* also for a model id that is in no list.
C24_EffectiveRpm ==
    /\ [](hostQuery.op = "getUsageStats" => hostQuery.limit = ActiveRpm)
    /\ [][/\ Granted => WindowUsage < Max(1, ActiveRpm - 1)
          /\ Suspended => WindowUsage >= Max(1, ActiveRpm - 1)]_vars

C24_Witness ==
    /\ provider = ProviderPaced
    /\ modelId = "lite"
    /\ pc = "sleep"
    /\ hostQuery.op = "getUsageStats"
    /\ hostQuery.limit = 3
    /\ hostQuery.used = 2

\* ---------------------------------------------------------------- C25
\* a step that issues a provider call: streamChat for sendMessage,
\* generateOnce for generateFollowUps
IssuesCall ==
    \/ pc # "stream" /\ pc' = "stream"
    \/ pc # "gen" /\ pc' = "gen"

\* C25: a provider call of sendMessage or generateFollowUps is issued only
\* when, at the grant, the pruned usage of the window is strictly below
\* max(1, effective rpm - 1).
C25_CapacityRule ==
    [][IssuesCall =>
          Len(FilterAfter(requestTimestamps, now - provider.rateLimit.windowMs))
              < Max(1, ActiveRpm - 1)]_vars

C25_Witness ==
    /\ pc = "gen"
    /\ ActiveRpm = 3
    /\ now > StartMs
    /\ WindowUsage = 1
    /\ genCalls = 1
    /\ outcome = "resolved"

\* ---------------------------------------------------------------- C26
\* C26: the step that grants capacity and invokes the provider appends the
\* request's timestamp to the pruned ledger, so that while the call is in
\* flight, and after it failed, the ledger holds it.
C26_RecordedAtGrant ==
    /\ [][IssuesCall =>
             requestTimestamps' =
                 Append(FilterAfter(requestTimestamps, now - provider.rateLimit.windowMs),
                        now)]_vars
    /\ [](pc \in {"stream", "gen"} => requestTimestamps # <<>>)
    /\ [][(pc \in {"stream", "gen"} /\ pc' = "idle") =>
             requestTimestamps' # <<>>]_vars

\* ---------------------------------------------------------------- C27
\* the oldest timestamp of the window, 0 when the window is empty
OldestInWindow ==
    LET inWindow == {i \in 1..Len(requestTimestamps) :
                        requestTimestamps[i] > now - provider.rateLimit.windowMs}
    IN  IF inWindow = {} THEN 0
        ELSE requestTimestamps[CHOOSE i \in inWindow : \A j \in inWindow : i <= j]

\* C27: at capacity, waitForCapacity arms a timer of
\* max(500, oldest + windowMs - now + 200) ms; it returns only from a
\* re-check at or after the timer's due time that finds the usage below the
\* limit, sleeps again only when the re-check finds it at the limit, and a
\* suspended wait always returns.
C27_WaitTerminates ==
    /\ [][Suspended =>
             /\ OldestInWindow # 0
             /\ wakeAt' = now + Max(500, OldestInWindow + provider.rateLimit.windowMs - now + 200)
             /\ WindowUsage >= Max(1, ActiveRpm - 1)]_vars
    /\ [][(pc = "sleep" /\ pc' # "sleep") =>
             /\ pc' = "stream"
             /\ now >= wakeAt
             /\ now >= OldestInWindow
             /\ WindowUsage < Max(1, ActiveRpm - 1)]_vars
    /\ (pc = "sleep" ~> pc = "stream")

C27_Witness ==
    /\ pc = "stream"
    /\ streamCalls = 5
    /\ provider = ProviderPaced
    /\ modelId = "steady"
    /\ requestTimestamps = <<StartMs + TickMs, StartMs + TickMs, StartMs + 2 * TickMs>>
    /\ now = StartMs + 60000 + MarginMs

\* ---------------------------------------------------------------- C28
\* the tool_calls fragments of the chunks consumed so far, in arrival order
Fragments ==
    Flatten([k \in 1..Len(consumed) |->
                IF consumed[k].delta THEN consumed[k].tool_calls ELSE <<>>])

\* the argument text of call index i: its fragments concatenated in order
RECURSIVE ArgsOf(_, _)
ArgsOf(frs, i) ==
    IF frs = <<>> THEN ""
    ELSE (IF Head(frs).index = i THEN Head(frs).arguments ELSE "") \o ArgsOf(Tail(frs), i)

\* the distinct call indices, by first appearance
RECURSIVE FirstAppearances(_, _)
FirstAppearances(frs, seen) ==
    IF frs = <<>> THEN <<>>
    ELSE IF Head(frs).index \in seen THEN FirstAppearances(Tail(frs), seen)
         ELSE <<Head(frs).index>> \o FirstAppearances(Tail(frs), seen \cup {Head(frs).index})

ArgsTextOf(i) == IF ArgsOf(Fragments, i) = "" THEN "{}" ELSE ArgsOf(Fragments, i)

\* C28: streamChat of an OpenAI-compatible adapter returns one FunctionCall
\* per distinct call index, in the order the indices first appeared, with
\* args the parse of the concatenation, in arrival order, of the index's
\* argument fragments, however the fragments were split over chunks and
\* interleaved; nothing is parsed, returned or thrown before the stream has
\* ended, and it throws only if some concatenation does not parse.
C28_ToolCallAssembly ==
    adapter \in OpenAiAdapters =>
        LET order == FirstAppearances(Fragments, {})
            complete == \A k \in 1..Len(order) : ArgsTextOf(order[k]) \in ValidJson
        IN  /\ adapterPc = "reading" => returned = <<>> /\ adapterError = "none"
            /\ adapterPc \in {"returned", "threw"} => stream = <<>>
            /\ adapterPc = "threw" => ~complete
            /\ adapterPc = "returned" =>
                  /\ complete
                  /\ Len(returned) = Len(order)
                  /\ \A k \in 1..Len(order) :
                        returned[k].args = JsonParse(ArgsTextOf(order[k]))

C28_Witness ==
    /\ adapter = "mistral"
    /\ adapterPc = "returned"
    /\ Len(consumed) = 3
    /\ Len(consumed[3].tool_calls) = 2
    /\ Len(returned) = 2
    /\ returned[1] = [name |-> "lookup", args |-> {"q"}, id |-> "call_b"]
    /\ returned[2] = [name |-> "search", args |-> {}, id |-> "call_a"]

\* ---------------------------------------------------------------- C29
\* the position of the last assistant message before position k, 0 if none
AssistantBefore(msgs, k) ==
    LET before == {j \in 1..(k - 1) : msgs[j].role = "assistant"}
    IN  IF before = {} THEN 0 ELSE CHOOSE j \in before : \A i \in before : i <= j

\* the ids of the tool calls of a vendor's assistant message
GroqCallIds(m) == {m.tool_calls[c].id : c \in 1..Len(m.tool_calls)}
AnthropicCallIds(m) ==
    {m.blocks[c].id : c \in {b \in 1..Len(m.blocks) : m.blocks[b].type = "tool_use"}}

\* the functionResponse parts of a canonical history
RECURSIVE ResponseCount(_)
ResponseCount(history) ==
    IF history = <<>> THEN 0
    ELSE Len(SelectSeq(Head(history).parts, IsResponsePart)) + ResponseCount(Tail(history))

ToolMessages(msgs) == {k \in 1..Len(msgs) : msgs[k].role = "tool"}
ResultBlocks(msgs) ==
    {<<k, b>> \in (1..Len(msgs)) \X (1..3) :
        b <= Len(msgs[k].blocks) /\ msgs[k].blocks[b].type = "tool_result"}

\* C29: in the vendor messages converted from a history of the engine, every
\* tool result carries the id of a tool call of the assistant message
\* converted from the preceding model turn, also for calls without an id;
\* and every functionResponse part becomes a tool result of its own (a
\* tool-role message for the OpenAI-compatible vendors), none is folded into
\* a user text.
C29_ToolAnswersAddressed ==
    /\ [](wire.vendor = "groq" =>
            \A k \in ToolMessages(wire.messages) :
                LET a == AssistantBefore(wire.messages, k)
                IN  /\ a # 0
                    /\ wire.messages[k].tool_call_id \in GroqCallIds(wire.messages[a]))
    /\ [](wire.vendor = "anthropic" =>
            \A kb \in ResultBlocks(wire.messages) :
                LET a == AssistantBefore(wire.messages, kb[1])
                IN  /\ a # 0
                    /\ a = kb[1] - 1
                    /\ wire.messages[kb[1]].blocks[kb[2]].id
                           \in AnthropicCallIds(wire.messages[a]))
    /\ [][wire' # wire =>
             IF wire'.vendor = "groq"
             THEN Cardinality(ToolMessages(wire'.messages)) = ResponseCount(conversationHistory)
             ELSE Cardinality(ResultBlocks(wire'.messages)) = ResponseCount(conversationHistory)]_vars

\* ---------------------------------------------------------------- C30
\* the content chunks received so far; when the stream was opened or, if
\* later, the last content chunk arrived
ContentArrivals ==
    {k \in 1..Len(consumed) :
        consumed[k].kind = "chunk" /\ consumed[k].chunk.delta /\ consumed[k].chunk.content # ""}
HadContent == ContentArrivals # {}
LastDataAt ==
    LET data == ContentArrivals \cup {k \in 1..Len(consumed) : consumed[k].kind = "open"}
    IN  consumed[CHOOSE k \in data : \A j \in data : j <= k].at
SilenceAllowed == IF HadContent THEN 60000 ELSE 180000

HostCalls(op) == hostView'.calls = hostView.calls + 1 /\ hostView'.op = op

\* the step is one of sendMessage: its call, or its task resuming after
\* streamChat or callTool settled
SendMessageStep ==
    \/ ops' = ops + 1 /\ outcome' = "pending"
    \/ pc \in {"stream", "tool"}

\* C31: updateProvider, as called on the switch-provider path, changes only
\* the engine's provider and model id: the history, the request ledger and
\* the state of the engine's task are as before. The history changes only in
\* a step of sendMessage, of restoreHistory or of clearHistory.
C31_UpdateProviderFrame ==
    [][/\ (chatEngine /\ HostCalls("updateProvider")) =>
              /\ conversationHistory' = conversationHistory
              /\ requestTimestamps' = requestTimestamps
              /\ UNCHANGED engineTask
       /\ conversationHistory' # conversationHistory =>
              \/ SendMessageStep
              \/ HostCalls("restoreHistory")
              \/ HostCalls("clearHistory")]_vars

\* the engine was switched from one provider to a stricter one while it
\* held a request recorded under the first, and now waits because of it
C31_Witness ==
    /\ hostView.op = "updateProvider"
    /\ hostView.engine
    /\ hostView.from = "free"
    /\ provider.id = "tiny"
    /\ hostView.ledgerBefore # <<>>
    /\ requestTimestamps = hostView.ledgerBefore
    /\ conversationHistory # <<>>
    /\ pc = "sleep"

\* the calls of a model message, as the model asked for them
AskedIn(m) ==
    [j \in 1..Len(CallsIn(m)) |->
        [name |-> CallsIn(m)[j].name, args |-> CallsIn(m)[j].args, id |-> CallsIn(m)[j].id]]

\* C32: a sendMessage that returns with the model's answer after k tool
\* rounds (0 <= k <= 9) has appended 2 + 2k messages to the history it was
\* called on, which is otherwise as it was: the user text message, then per
\* round a model message (the reply's text, if any, as its first part, then
\* its function calls in order) and a role-user message of function
\* responses only, and last one model message of one text part.
C32_HistoryShape ==
    (pc = "idle" /\ outcome = "resolved" /\ result.functionCalls = <<>>) =>
        LET base == Len(histAtSend)
            h == conversationHistory
        IN  /\ round \in 0..9
            /\ Len(h) = base + 2 + 2 * round
            /\ SubSeq(h, 1, base) = histAtSend
            /\ h[base + 1] = [role |-> "user", parts |-> <<[kind |-> "text", text |-> "hello"]>>]
            /\ \A i \in 1..round :
                  LET m == h[base + 2 * i]
                      r == h[base + 2 * i + 1]
                      reply == Reply(policy, i - 1)
                      shift == IF reply.text # "" THEN 1 ELSE 0
                  IN  /\ m.role = "model"
                      /\ Len(m.parts) = shift + Len(reply.functionCalls)
                      /\ shift = 1 => m.parts[1] = [kind |-> "text", text |-> reply.text]
                      /\ \A j \in 1..Len(reply.functionCalls) :
                            /\ IsCallPart(m.parts[shift + j])
                            /\ AskedIn(m)[j] = reply.functionCalls[j]
                      /\ r.role = "user"
                      /\ Len(r.parts) = Len(reply.functionCalls)
                      /\ \A j \in 1..Len(r.parts) : IsResponsePart(r.parts[j])
            /\ h[Len(h)].role = "model"
            /\ Len(h[Len(h)].parts) = 1
            /\ h[Len(h)].parts[1].kind = "text"

\* two rounds of a model that says something before its three calls, on a
\* history that already held a message
C32_Witness ==
    /\ pc = "idle"
    /\ outcome = "resolved"
    /\ result.functionCalls = <<>>
    /\ round = 2
    /\ Reply(policy, 0).text # ""
    /\ Len(Reply(policy, 0).functionCalls) = 3
    /\ histAtSend # <<>>
    /\ Appended = 6

\* the last two messages of a history
LastTwo(h) == SubSeq(h, Len(h) - 1, Len(h))

\* C33: when streamChat throws in the first round, sendMessage rejects with
\* the history it was called on plus the one user text message; the provider
\* is always handed the history as it stands, so the next sendMessage of the
\* same text hands it a history that ends in two user text messages for
\* that text.
C33_RetryDuplicatesUserTurn ==
    /\ []((outcome = "rejected" /\ round = 0) =>
              conversationHistory =
                  Append(histAtSend, [role |-> "user",
                                      parts |-> <<[kind |-> "text", text |-> "hello"]>>]))
    /\ [](pc = "stream" => conversationHistory = histAtRound)
    /\ [][(outcome = "rejected" /\ round = 0 /\ outcome' = "pending") =>
              /\ Len(histAtRound') >= 2
              /\ LastTwo(histAtRound') =
                    << [role |-> "user", parts |-> <<[kind |-> "text", text |-> "hello"]>>],
                       [role |-> "user", parts |-> <<[kind |-> "text", text |-> "hello"]>>] >>]_vars

\* the retry of a first request that failed at once: the provider is called
\* with the user's text twice and nothing else
C33_Witness ==
    /\ pc = "stream"
    /\ ops = 2
    /\ round = 0
    /\ Len(histAtSend) = 1
    /\ conversationHistory = histAtSend \o histAtSend
    /\ conversationHistory[2].role = "user"

\* the engine existed when reconnect-mcp was handled, the new gateway has
\* connected to a server since, and the request being handled was invoked
\* after that
SentAfterReconnect ==
    /\ mcpManager.state = "ready"
    /\ mcpManager.clients # {}
    /\ Len(requests) > mcpManager.since
    /\ Handling("sendMessage")
    /\ ops = Current.op + 1

\* C34: a sendMessage issued after reconnect-mcp completed, on the engine
\* that existed before it, offers the model the catalog of the gateway
\* mcpManager now holds, and its tool calls settle as callTool of that
\* gateway settles them.
C34_EngineUsesNewGateway ==
    /\ (SentAfterReconnect /\ pc = "stream") => tools = mcpManager.tools
    /\ (SentAfterReconnect /\ pc = "tool") =>
           inflight = callTool(mcpManager.toolToServer, mcpManager.clients,
                               result.functionCalls[callIdx].name,
                               result.functionCalls[callIdx].args)

\* h begins with the messages of p
BeginsWith(h, p) == Len(p) <= Len(h) /\ SubSeq(h, 1, Len(p)) = p

\* the last handler main ran besides send-message was load-chat, and a
\* send-message invoked after it has returned success
SucceededAfterLoad ==
    /\ hostView.op = "restoreHistory"
    /\ Len(requests) > hostView.request
    /\ Handling("returned")
    /\ Current.result = "success"

\* C35: when load-chat(c) was handled, with or without an engine, and a
\* send-message invoked after it succeeds, the file of chat c holds a
\* history that begins with the history stored for c before the load.
C35_LoadKeepsEarlierTurns ==
    SucceededAfterLoad =>
        /\ currentChatId \in DOMAIN chatFiles
        /\ BeginsWith(chatFiles[currentChatId], hostView.loaded)

\* m is a message of the user that holds the text they typed
IsUserText(m) ==
    /\ m.role = "user"
    /\ Len(m.parts) = 1
    /\ m.parts[1].kind = "text"

\* C36: a history that is not empty begins with a user Text message, also
\* when clear-chat or new-chat is handled while sendMessage is suspended at
\* an await: it never begins with a model message or a tool-response
\* message.
C36_HistoryBeginsWithUserText ==
    conversationHistory # <<>> => IsUserText(conversationHistory[1])

\* main sent chat-stream-end once for every request that returned success
\* and never for a request that returned an error or has not returned
StreamEndsMatchResults ==
    \A i \in 1..Len(requests) :
        requests[i].ends = IF requests[i].result = "success" THEN 1 ELSE 0

C38_EngineModelIsAdapterModel ==
    chatEngine => modelId = adapterModel

\* callTool of a name the host can ask for rejects with "Server not
\* connected: <s>"
NotConnectedOutcome(s) ==
    \E name \in HostToolNames, args \in HostToolArgs :
        /\ callTool(toolToServer, clients, name, args).state = "rejected"
        /\ callTool(toolToServer, clients, name, args).message = "Server not connected: " \o s

\* C39 as stated: in every state reachable through connect() and
\* disconnect(), every tool name of the routing table maps to a server that
\* has a client entry, so callTool never rejects with "Server not
\* connected".
C39_RoutesHaveClients ==
    /\ \A name \in DOMAIN toolToServer : toolToServer[name] \in clients
    /\ \A s \in Servers : ~NotConnectedOutcome(s)

\* disconnect() called close() on the client of server s while the
\* listTools() of connect() on that client was pending
ClosedWhileListing(s) ==
    \E j \in Logged(s, "close"), k \in Logged(s, "listTools") : j < k

\* C39 amended: every tool name of the routing table maps to a server that
\* has a client entry, and callTool does not reject with "Server not
\* connected", except for a server whose client disconnect() closed while
\* connect() was still awaiting its listTools().
C39_RoutesHaveClientsUnlessClosed ==
    /\ \A name \in DOMAIN toolToServer :
           toolToServer[name] \in clients \/ ClosedWhileListing(toolToServer[name])
    /\ \A s \in Servers : NotConnectedOutcome(s) => ClosedWhileListing(s)

\* connect() resolved with a routing table whose servers all have clients,
\* although disconnect() had run and returned while connect() was pending,
\* and the host's call of 'search' was forwarded and answered
C39_Witness ==
    /\ connectPromise = "resolved"
    /\ disconnectPc = "done"
    /\ "search" \in DOMAIN toolToServer
    /\ \A name \in DOMAIN toolToServer : toolToServer[name] \in clients
    /\ HostLog # <<>>
    /\ LastHostCall.type = "callTool()"
    /\ LastHostCall.detail = "search"
    /\ toolResult.state = "resolved"

\* C40: getConnectionStatus() lists a configured server as connected only
\* if connect() recorded no connection error for it; a server whose
\* transport connected and whose listTools() then failed is not listed as
\* connected.
C40_ConnectedHasNoError ==
    \A i \in 1..Len(Status.connected) :
        /\ Status.connected[i] \notin DOMAIN connectionErrors
        /\ \A j \in Logged(Status.connected[i], "listTools") :
               gatewayLog[Status.connected[i]][j].ok

====
